---- MODULE Spec2Model ----
(***************************************************************************)
(* A model of the chunked, replicated file store of this repository:       *)
(*   - the metadata server   (src/backend/metadata_server/metadata5.py),   *)
(*   - the API gateway       (src/backend/api_gateway/api5.py),            *)
(*   - the chunk nodes       (src/backend/node.py).                        *)
(*                                                                         *)
(* Ten specifications share the variables:                                 *)
(*   Spec      requests arrive one at a time; every handler is one action. *)
(*   SpecFault the same, and chunk files can be removed behind the API,    *)
(*             nodes can become unreachable, the reconciler runs cycles.   *)
(*   SpecNode  clients call the chunk nodes' endpoints directly.           *)
(*   SpecUpload the gateway's upload handler step by step, with the        *)
(*             threads it starts finishing in any order.                   *)
(*   SpecIO    metadata requests whose write of metadata.json can fail.    *)
(*   SpecConc  the metadata server's mutating handlers run on concurrent   *)
(*             request threads; each handler is split at its accesses to   *)
(*             metadata.json (load, open for writing, dump).               *)
(*   SpecCrash one request thread, split the same way, and the metadata    *)
(*             process can be killed at any of those points.               *)
(*   SpecBlocks the threads of SpecConc, each dump reaching the file in    *)
(*             two writes.                                                 *)
(*   SpecRead  the gateway's download handler step by step, while chunk    *)
(*             files disappear and nodes stop and start.                   *)
(*   SpecCycle the reconciler's cycle step by step, while files are        *)
(*             uploaded and deleted and chunk files disappear.             *)
(***************************************************************************)
EXTENDS Integers, Sequences, FiniteSets, TLC

VARIABLES
    disk,     \* metadata.json: [valid, md]; valid = FALSE: missing or unparsable
    store,    \* store[n]: the chunk directory of node n, chunk id -> bytes
    up,       \* up[n]: node n accepts connections
    nextId,   \* number of chunk identifiers generated so far (uuid4 is fresh)
    hist,     \* the last request served (or environment event) and its response
    hpc,      \* SpecConc/SpecCrash: control point of each request thread
    hreq,     \* SpecConc/SpecCrash: the request each thread serves
    hmd,      \* SpecConc/SpecCrash: each thread's local `metadata` dictionary
    hresp,    \* SpecConc/SpecCrash: the status each thread returned
    base,     \* SpecConc/SpecCrash: the persisted metadata when the round began
    upl,      \* SpecUpload: the gateway's upload handler, its position and locals
    puts,     \* SpecUpload: the upload threads started and not yet finished
    raw,      \* SpecBlocks: metadata.json as the raw writes of the dumps left it
    dl,       \* SpecRead: the gateway's download handler, its position and locals
    rec       \* SpecCycle: the reconciler's cycle, its position and locals

vars == <<disk, store, up, nextId, hist, hpc, hreq, hmd, hresp, base, upl, puts,
         raw, dl, rec>>

----------------------------------------------------------------------------
(* Configuration *)

\* CHUNK_SIZE = 4194304 in the source; scaled to 2 bytes so that files of
\* 0, CHUNK_SIZE, CHUNK_SIZE+1 and more bytes are within reach of the check.
CHUNK_SIZE == 2

\* range(2) in create_file: the number of replicas assigned to each chunk.
REPLICAS == 2

\* list(NODE_MAP.keys()), in insertion order.
available_nodes == <<"node1", "node2", "node3">>

NODE_MAP == {available_nodes[i] : i \in 1..Len(available_nodes)}

\* The nodes the gateway's write path sends every chunk to.
upload_nodes == <<"node1", "node2">>

\* Longest file uploaded.
MaxLen == 3

\* Number of chunk identifiers the metadata server may generate in a run.
MaxIds == 2

\* Number of nodes that may be unreachable at the same time.
MaxDown == 1

ChunkIds == 1..MaxIds

\* The `size` a client may send to POST /api/file; the handler does not
\* look at its sign.
CreateSizes == (0 - 1)..MaxLen

----------------------------------------------------------------------------
(* Small dictionary helpers (Python dict assignment and del) *)

DictSet(f, k, v) == [x \in (DOMAIN f) \cup {k} |-> IF x = k THEN v ELSE f[x]]

DictDel(f, k) == [x \in (DOMAIN f) \ {k} |-> f[x]]

DictDelAll(f, ks) == [x \in (DOMAIN f) \ ks |-> f[x]]

Range(s) == {s[i] : i \in DOMAIN s}

StartsWith(s, p) == Len(p) <= Len(s) /\ SubSeq(s, 1, Len(p)) = p

----------------------------------------------------------------------------
(* Paths are character sequences *)

Slash == <<"/">>

Directories == {Slash}

Filenames == {<<"a">>, <<"b">>}

\* os.path.join(directory, filename)
path_join(directory, filename) ==
    IF StartsWith(filename, Slash) THEN filename
    ELSE IF directory = <<>> \/ directory[Len(directory)] = "/"
         THEN directory \o filename
         ELSE directory \o Slash \o filename

\* Keys a client may name when it calls the metadata server directly.
Paths == {path_join(d, f) : d \in Directories, f \in Filenames}

\* The part of the URL after /download/ or /delete/ (the <path:file_path>
\* converter hands it over without the leading slash).
UrlPaths == {Tail(p) : p \in Paths}

\* The `directory` arguments of GET /api/list.
Prefixes == {<<>>, Slash, <<"/", "a">>, <<"/", "b">>, <<"/", "a", "/">>}

\* File contents: one file of every length up to MaxLen, its bytes all
\* different so that a missing, repeated or misplaced byte shows.
Datas == {[i \in 1..n |-> i] : n \in 0..MaxLen}

----------------------------------------------------------------------------
(* metadata.json *)

EmptyMD == [file_to_chunks |-> <<>>, chunk_metadata |-> <<>>]

\* The file as a reader finds it: valid = FALSE when it is missing, empty or
\* not parsable; size is its length in bytes.
NoFile == [valid |-> FALSE, md |-> EmptyMD, size |-> 0]

RECURSIVE SumOver(_, _)
SumOver(f, left) ==
    IF left = {} THEN 0
    ELSE LET k == CHOOSE x \in left : TRUE
         IN f[k] + SumOver(f, left \ {k})

\* The number of characters json.dump(metadata, f, indent=2) writes: with
\* 36-character uuid4 strings, 50 for the two empty dictionaries; 2 more once
\* a dictionary has an entry; a file entry takes 12 plus its path, and 4 + 46
\* per chunk once it lists a chunk; a chunk record takes 221.
json_size(metadata) ==
    LET ftc == metadata.file_to_chunks
        cm  == metadata.chunk_metadata
        entry == [q \in DOMAIN ftc |->
                     12 + Len(q) + (IF ftc[q] = <<>> THEN 0
                                    ELSE 4 + 46 * Len(ftc[q]))]
    IN 50 + (IF DOMAIN ftc = {} THEN 0 ELSE 2 + SumOver(entry, DOMAIN ftc))
          + (IF DOMAIN cm = {} THEN 0 ELSE 2 + 221 * Cardinality(DOMAIN cm))

\* load_metadata: the parsed file, or empty dictionaries when the file is
\* missing or json.load raises.
load_metadata(d) == IF d.valid THEN d.md ELSE EmptyMD

\* save_metadata, first half: open(METADATA_FILE, 'w') truncates the file.
open_for_write(d) == NoFile

\* save_metadata, second half: json.dump and close write the text at offset 0
\* of this handle. What another handle wrote beyond its end stays in the file
\* and makes it unparsable.
write_dump(d, metadata) ==
    IF json_size(metadata) >= d.size
    THEN [valid |-> TRUE, md |-> metadata, size |-> json_size(metadata)]
    ELSE [valid |-> FALSE, md |-> EmptyMD, size |-> d.size]

\* save_metadata, run without interruption
save_metadata(d, metadata) == write_dump(open_for_write(d), metadata)

----------------------------------------------------------------------------
(* Chunk node (node.py): blobs is the node's chunk directory *)

\* A Put that keeps the blob already stored under the identifier.
upload_chunk_Mutant(blobs, chunk_id, chunk_data) ==
    IF chunk_data = <<>>
    THEN [blobs |-> blobs, status |-> 400]
    ELSE IF chunk_id \in DOMAIN blobs
    THEN [blobs |-> blobs, status |-> 201]
    ELSE [blobs |-> DictSet(blobs, chunk_id, chunk_data), status |-> 201]

\* POST /chunk
upload_chunk(blobs, chunk_id, chunk_data) ==
    IF chunk_data = <<>>
    THEN [blobs |-> blobs, status |-> 400]
    ELSE [blobs |-> DictSet(blobs, chunk_id, chunk_data), status |-> 201]

\* The body of the 404 answer of GET /chunk/<chunk_id>, the JSON text
\* {"error": "Chunk not found"}: bytes that are not the bytes of any chunk
\* (the bytes clients upload are 1..MaxLen).
NotFoundBody == <<0>>

\* GET /chunk/<chunk_id>
download_chunk(blobs, chunk_id) ==
    IF chunk_id \notin DOMAIN blobs
    THEN [status |-> 404, content |-> NotFoundBody]
    ELSE [status |-> 200, content |-> blobs[chunk_id]]

\* DELETE /chunk/<chunk_id>
delete_chunk(blobs, chunk_id) ==
    IF chunk_id \notin DOMAIN blobs
    THEN [blobs |-> blobs, status |-> 404]
    ELSE [blobs |-> DictDel(blobs, chunk_id), status |-> 200]

\* An Exists that answers 404 for a chunk that is not stored.
check_chunk_exists_Mutant(blobs, chunk_id) ==
    [status |-> IF chunk_id \in DOMAIN blobs THEN 200 ELSE 404,
     exists |-> chunk_id \in DOMAIN blobs]

\* GET /chunk/<chunk_id>/exists
check_chunk_exists(blobs, chunk_id) ==
    [status |-> 200, exists |-> chunk_id \in DOMAIN blobs]

----------------------------------------------------------------------------
(* Metadata server (metadata5.py): the handlers as functions of the loaded  *)
(* metadata. Each returns the dictionary it leaves in memory, whether it    *)
(* goes on to save_metadata, and its response.                              *)

\* A chunk count that rounds down.
chunk_count_Mutant(file_size) == file_size \div CHUNK_SIZE

\* chunk_count = (file_size + CHUNK_SIZE - 1) // CHUNK_SIZE
chunk_count(file_size) == (file_size + CHUNK_SIZE - 1) \div CHUNK_SIZE

\* A replica set that names the first node twice.
assign_chunk_servers_Mutant == [i \in 1..REPLICAS |-> available_nodes[1]]

\* The replica set create_file gives every chunk:
\* available_nodes[i % len(available_nodes)] for i in range(2).
assign_chunk_servers ==
    [i \in 1..REPLICAS |-> available_nodes[((i - 1) % Len(available_nodes)) + 1]]

\* The ChunkRecord written at creation (lease_expiration, a timestamp that
\* is never read, is left out).
new_chunk_record ==
    [chunk_servers |-> assign_chunk_servers,
     version       |-> 0,
     primary       |-> assign_chunk_servers[1]]

\* POST /api/file. ids_before is the number of identifiers already handed
\* out: the fresh uuid4 values are ids_before+1 .. ids_before+chunk_count.
create_file(metadata, file_path, file_size, ids_before) ==
    LET chunks == [i \in 1..chunk_count(file_size) |-> ids_before + i]
        ftc    == DictSet(metadata.file_to_chunks, file_path, chunks)
        cm     == [c \in (DOMAIN metadata.chunk_metadata) \cup Range(chunks) |->
                      IF c \in Range(chunks) THEN new_chunk_record
                      ELSE metadata.chunk_metadata[c]]
    IN [md     |-> [file_to_chunks |-> ftc, chunk_metadata |-> cm],
        save   |-> TRUE,
        status |-> 200,
        chunks |-> chunks]

\* GET /api/file
get_file_metadata(metadata, file_path) ==
    IF file_path \notin DOMAIN metadata.file_to_chunks
    THEN [status |-> 404, chunks |-> <<>>]
    ELSE LET chunk_ids == metadata.file_to_chunks[file_path]
             known == SelectSeq(chunk_ids,
                                LAMBDA c : c \in DOMAIN metadata.chunk_metadata)
         IN [status |-> 200,
             chunks |-> [i \in 1..Len(known) |->
                           [chunk_id      |-> known[i],
                            chunk_servers |->
                                metadata.chunk_metadata[known[i]].chunk_servers]]]

\* A listing that does not compare the last character of the prefix.
list_files_Mutant(metadata, directory) ==
    LET stem == SubSeq(directory, 1, Len(directory) - 1)
        hit == {p \in DOMAIN metadata.file_to_chunks : StartsWith(p, stem)}
    IN [p \in hit |-> [chunk_count |-> Len(metadata.file_to_chunks[p])]]

\* GET /api/list
list_files(metadata, directory) ==
    LET hit == {p \in DOMAIN metadata.file_to_chunks : StartsWith(p, directory)}
    IN [p \in hit |-> [chunk_count |-> Len(metadata.file_to_chunks[p])]]

\* A rename that forgets the chunk list it moves.
rename_file_Mutant(metadata, old_path, new_path) ==
    IF old_path \notin DOMAIN metadata.file_to_chunks
    THEN [md |-> metadata, save |-> FALSE, status |-> 404]
    ELSE [md |-> [metadata EXCEPT !.file_to_chunks =
                     DictSet(DictDel(@, old_path), new_path, <<>>)],
          save |-> TRUE, status |-> 200]

\* A rename that leaves the file at its old path too.
rename_file_MutantCopy(metadata, old_path, new_path) ==
    IF old_path \notin DOMAIN metadata.file_to_chunks
    THEN [md |-> metadata, save |-> FALSE, status |-> 404]
    ELSE [md |-> [metadata EXCEPT !.file_to_chunks =
                     DictSet(@, new_path, @[old_path])],
          save |-> TRUE, status |-> 200]

\* A rename that, when the old path is absent, answers 404 after writing an
\* empty entry at the new path.
rename_file_MutantAbsent(metadata, old_path, new_path) ==
    IF old_path \notin DOMAIN metadata.file_to_chunks
    THEN [md |-> [metadata EXCEPT !.file_to_chunks = DictSet(@, new_path, <<>>)],
          save |-> TRUE, status |-> 404]
    ELSE LET moved == DictSet(metadata.file_to_chunks, new_path,
                              metadata.file_to_chunks[old_path])
         IN [md |-> [metadata EXCEPT !.file_to_chunks = DictDel(moved, old_path)],
             save |-> TRUE, status |-> 200]

\* PUT /api/file/rename
rename_file(metadata, old_path, new_path) ==
    IF old_path \notin DOMAIN metadata.file_to_chunks
    THEN [md |-> metadata, save |-> FALSE, status |-> 404]
    ELSE LET moved == DictSet(metadata.file_to_chunks, new_path,
                              metadata.file_to_chunks[old_path])
         IN [md |-> [metadata EXCEPT !.file_to_chunks = DictDel(moved, old_path)],
             save |-> TRUE, status |-> 200]

\* A delete that removes the file entry and leaves its chunk records.
delete_file_Mutant(metadata, file_path) ==
    IF file_path \notin DOMAIN metadata.file_to_chunks
    THEN [md |-> metadata, save |-> FALSE, status |-> 404, chunks_deleted |-> <<>>]
    ELSE [md |-> [metadata EXCEPT !.file_to_chunks = DictDel(@, file_path)],
          save |-> TRUE, status |-> 200,
          chunks_deleted |-> metadata.file_to_chunks[file_path]]

\* DELETE /api/file
delete_file(metadata, file_path) ==
    IF file_path \notin DOMAIN metadata.file_to_chunks
    THEN [md |-> metadata, save |-> FALSE, status |-> 404, chunks_deleted |-> <<>>]
    ELSE LET chunks_to_delete == metadata.file_to_chunks[file_path]
         IN [md |-> [file_to_chunks |-> DictDel(metadata.file_to_chunks, file_path),
                     chunk_metadata |-> DictDelAll(metadata.chunk_metadata,
                                                   Range(chunks_to_delete))],
             save |-> TRUE, status |-> 200,
             chunks_deleted |-> chunks_to_delete]

\* What a handler leaves in metadata.json when it runs without interruption.
persist(d, result) == IF result.save THEN save_metadata(d, result.md) ELSE d

----------------------------------------------------------------------------
(* API gateway (api5.py) *)

Min(a, b) == IF a <= b THEN a ELSE b

\* async_upload_chunk: POST the chunk to one node; a connection error is
\* logged and swallowed (status 0), the node's answer is not looked at.
async_upload_chunk(st, upm, node_id, chunk_data, chunk_id) ==
    IF ~upm[node_id]
    THEN [store |-> st, status |-> 0]
    ELSE LET r == upload_chunk(st[node_id], chunk_id, chunk_data)
         IN [store |-> [st EXCEPT ![node_id] = r.blobs], status |-> r.status]

\* file.read(CHUNK_SIZE), the i-th time it is called
file_read(data, i) ==
    SubSeq(data, (i - 1) * CHUNK_SIZE + 1, Min(i * CHUNK_SIZE, Len(data)))

\* The threads started for one chunk: one per node of upload_nodes.
\* acc = [store, acks]; acks collects the (chunk, node) pairs a node answered 201.
RECURSIVE upload_to_nodes(_, _, _, _, _)
upload_to_nodes(acc, upm, chunk_data, chunk_id, k) ==
    IF k > Len(upload_nodes) THEN acc
    ELSE LET r == async_upload_chunk(acc.store, upm, upload_nodes[k],
                                     chunk_data, chunk_id)
         IN upload_to_nodes(
                [store |-> r.store,
                 acks  |-> IF r.status = 201
                           THEN acc.acks \cup {<<chunk_id, upload_nodes[k]>>}
                           ELSE acc.acks],
                upm, chunk_data, chunk_id, k + 1)

\* The `while True` loop of upload_file, from its i-th iteration on, and the
\* join and response that follow it.
RECURSIVE upload_loop(_, _, _, _, _)
upload_loop(acc, upm, data, chunks, i) ==
    LET chunk_data == file_read(data, i)
    IN IF chunk_data = <<>>
       THEN [store |-> acc.store, acks |-> acc.acks, status |-> 200]
       ELSE IF i > Len(chunks)
       THEN [store |-> acc.store, acks |-> acc.acks, status |-> 500]
       ELSE upload_loop(upload_to_nodes(acc, upm, chunk_data, chunks[i], 1),
                        upm, data, chunks, i + 1)

\* POST /upload
upload_file(d, st, upm, ids_before, directory, filename, data) ==
    IF filename = <<>>
    THEN [disk |-> d, store |-> st, status |-> 400, path |-> <<>>,
          chunks |-> <<>>, acks |-> {}]
    ELSE LET file_path == path_join(directory, filename)
             file_info == create_file(load_metadata(d), file_path, Len(data),
                                      ids_before)
             sent      == upload_loop([store |-> st, acks |-> {}], upm, data,
                                      file_info.chunks, 1)
         IN [disk   |-> persist(d, file_info),
             store  |-> sent.store,
             status |-> sent.status,
             path   |-> file_path,
             chunks |-> file_info.chunks,
             acks   |-> sent.acks]

\* decoded_path of download_file
decoded_path(file_path) ==
    IF StartsWith(file_path, Slash) THEN file_path ELSE Slash \o file_path

\* A read that asks the first replica only.
fetch_chunk_Mutant(st, upm, chunk) ==
    LET chunk_id == chunk.chunk_id
        node_id  == chunk.chunk_servers[1]
    IN IF ~upm[node_id]
       THEN [ok |-> FALSE, content |-> <<>>, node |-> node_id]
       ELSE IF check_chunk_exists(st[node_id], chunk_id).exists
       THEN [ok |-> TRUE, content |-> download_chunk(st[node_id], chunk_id).content,
             node |-> node_id]
       ELSE [ok |-> FALSE, content |-> <<>>, node |-> node_id]

\* A read that, when neither replica yields the chunk, goes on without it.
fetch_chunk_MutantSkip(st, upm, chunk) ==
    LET first == fetch_chunk_Mutant(st, upm, chunk)
        second == fetch_chunk_Mutant(
                      st, upm, [chunk EXCEPT !.chunk_servers = Tail(@)])
    IN IF first.ok THEN first
       ELSE IF upm[chunk.chunk_servers[1]] /\ second.ok THEN second
       ELSE [ok |-> TRUE, content |-> <<>>, node |-> "none"]

\* The body of the `for chunk in chunks` loop of download_file: probe the
\* first replica, read it, or else probe and read the second. ok = FALSE is
\* an early `return ..., 500` (an unreachable node raises inside the try).
fetch_chunk(st, upm, chunk) ==
    LET chunk_id == chunk.chunk_id
        servers  == chunk.chunk_servers
    IN IF servers = <<>> \/ ~upm[servers[1]]
       THEN [ok |-> FALSE, content |-> <<>>, node |-> "none"]
       ELSE LET response == check_chunk_exists(st[servers[1]], chunk_id)
            IN IF response.status = 200 /\ response.exists
               THEN [ok |-> TRUE,
                     content |-> download_chunk(st[servers[1]], chunk_id).content,
                     node |-> servers[1]]
               ELSE IF Len(servers) > 1
               THEN IF ~upm[servers[2]]
                    THEN [ok |-> FALSE, content |-> <<>>, node |-> "none"]
                    ELSE LET backup_response ==
                                 check_chunk_exists(st[servers[2]], chunk_id)
                         IN IF backup_response.status = 200 /\ backup_response.exists
                            THEN [ok |-> TRUE,
                                  content |->
                                      download_chunk(st[servers[2]], chunk_id).content,
                                  node |-> servers[2]]
                            ELSE [ok |-> FALSE, content |-> <<>>, node |-> "none"]
               ELSE [ok |-> FALSE, content |-> <<>>, node |-> "none"]

\* The chunk loop of download_file from chunk i on, then send_file.
\* acc = [bound, file_data, sources]: file_data is assigned a fresh bytearray
\* inside the loop, once per chunk, and is unbound if the loop never runs
\* (send_file then raises NameError, answered 500 by the outer except).
RECURSIVE download_loop(_, _, _, _, _)
download_loop(acc, st, upm, chunks, i) ==
    IF i > Len(chunks)
    THEN IF acc.bound
         THEN [status |-> 200, body |-> acc.file_data, sources |-> acc.sources]
         ELSE [status |-> 500, body |-> <<>>, sources |-> acc.sources]
    ELSE LET r == fetch_chunk(st, upm, chunks[i])
         IN IF r.ok
            THEN download_loop([bound     |-> TRUE,
                                file_data |-> <<>> \o r.content,
                                sources   |-> Append(acc.sources, r.node)],
                               st, upm, chunks, i + 1)
            ELSE [status |-> 500, body |-> <<>>, sources |-> acc.sources]

\* GET /download/<path:file_path>
download_file(d, st, upm, file_path) ==
    LET metadata == get_file_metadata(load_metadata(d), decoded_path(file_path))
    IN IF metadata.status = 404
       THEN [status |-> 404, body |-> <<>>, sources |-> <<>>]
       ELSE download_loop([bound |-> FALSE, file_data |-> <<>>, sources |-> <<>>],
                          st, upm, metadata.chunks, 1)

\* POST /rename
api_rename_file(d, old_path, new_path) ==
    IF old_path = <<>> \/ new_path = <<>>
    THEN [disk |-> d, status |-> 400]
    ELSE LET response == rename_file(load_metadata(d), old_path, new_path)
         IN [disk   |-> persist(d, response),
             status |-> IF response.status >= 400 THEN 500 ELSE 200]

\* POST /delete/<path:file_path>
delete_file_web(d, file_path) ==
    LET response == delete_file(load_metadata(d), file_path)
    IN [disk   |-> persist(d, response),
        status |-> IF response.status = 200 THEN 200 ELSE 400,
        chunks_deleted |-> response.chunks_deleted]

----------------------------------------------------------------------------
(* Reconciler (metadata5.py, reconcile_chunks) *)
(* acc = [store, puts]: puts collects the (chunk, node) pairs a repair     *)
(* upload was sent to.                                                     *)

\* A repair that finds the missing replica and does not upload to it.
repair_replica_Mutant(acc, upm, chunk_id, chunk_servers, node_id) ==
    acc

\* A repair that uploads the chunk to the last node of the node table, whether
\* or not the chunk is assigned to it.
repair_replica_MutantStray(acc, upm, chunk_id, chunk_servers, node_id) ==
    LET others == SelectSeq(chunk_servers, LAMBDA n : n # node_id)
        stray  == available_nodes[Len(available_nodes)]
    IN IF ~upm[node_id] \/ check_chunk_exists(acc.store[node_id], chunk_id).exists
          \/ others = <<>>
       THEN acc
       ELSE IF ~upm[others[1]]
               \/ download_chunk(acc.store[others[1]], chunk_id).status # 200
       THEN acc
       ELSE [store |-> async_upload_chunk(
                           acc.store, upm, stray,
                           download_chunk(acc.store[others[1]], chunk_id).content,
                           chunk_id).store,
             puts  |-> acc.puts \cup {<<chunk_id, stray>>}]

\* A repair that uploads the chunk from the other replica whether or not the
\* node holds it.
repair_replica_MutantAlways(acc, upm, chunk_id, chunk_servers, node_id) ==
    LET others == SelectSeq(chunk_servers, LAMBDA n : n # node_id)
    IN IF ~upm[node_id] \/ others = <<>> THEN acc
       ELSE IF ~upm[others[1]]
               \/ download_chunk(acc.store[others[1]], chunk_id).status # 200
       THEN acc
       ELSE [store |-> async_upload_chunk(
                           acc.store, upm, node_id,
                           download_chunk(acc.store[others[1]], chunk_id).content,
                           chunk_id).store,
             puts  |-> acc.puts \cup {<<chunk_id, node_id>>}]

\* One iteration of `for node_id in chunk_servers`: probe the node; when the
\* chunk is missing there, read it from the first other replica and upload
\* it. A request to an unreachable node raises and the iteration ends.
repair_replica(acc, upm, chunk_id, chunk_servers, node_id) ==
    IF ~upm[node_id] THEN acc
    ELSE LET response == check_chunk_exists(acc.store[node_id], chunk_id)
         IN IF response.status = 200 /\ response.exists THEN acc
            ELSE LET others == SelectSeq(chunk_servers, LAMBDA n : n # node_id)
                 IN IF others = <<>> THEN acc
                    ELSE LET backup_node_id == others[1]
                         IN IF ~upm[backup_node_id] THEN acc
                            ELSE LET backup_response ==
                                         download_chunk(acc.store[backup_node_id],
                                                        chunk_id)
                                 IN IF backup_response.status = 200
                                    THEN [store |-> async_upload_chunk(
                                                        acc.store, upm, node_id,
                                                        backup_response.content,
                                                        chunk_id).store,
                                          puts  |-> acc.puts \cup
                                                        {<<chunk_id, node_id>>}]
                                    ELSE acc

\* `for node_id in chunk_servers`, from the k-th server on
RECURSIVE reconcile_servers(_, _, _, _, _)
reconcile_servers(acc, upm, chunk_id, chunk_servers, k) ==
    IF k > Len(chunk_servers) THEN acc
    ELSE reconcile_servers(
             repair_replica(acc, upm, chunk_id, chunk_servers, chunk_servers[k]),
             upm, chunk_id, chunk_servers, k + 1)

\* `for chunk_id in chunk_ids`, from the j-th chunk on
RECURSIVE reconcile_file(_, _, _, _, _)
reconcile_file(acc, upm, chunk_metadata, chunk_ids, j) ==
    IF j > Len(chunk_ids) THEN acc
    ELSE IF chunk_ids[j] \in DOMAIN chunk_metadata
    THEN reconcile_file(
             reconcile_servers(acc, upm, chunk_ids[j],
                               chunk_metadata[chunk_ids[j]].chunk_servers, 1),
             upm, chunk_metadata, chunk_ids, j + 1)
    ELSE reconcile_file(acc, upm, chunk_metadata, chunk_ids, j + 1)

\* `for file_path, chunk_ids in file_to_chunks.items()`, over the files left
RECURSIVE reconcile_files(_, _, _, _)
reconcile_files(acc, upm, metadata, left) ==
    IF left = {} THEN acc
    ELSE LET file_path == CHOOSE p \in left : TRUE
         IN reconcile_files(
                reconcile_file(acc, upm, metadata.chunk_metadata,
                               metadata.file_to_chunks[file_path], 1),
                upm, metadata, left \ {file_path})

\* A reconciler whose cycle is given up as a whole when it meets a server
\* that is unreachable or a chunk that no server of its record holds.
reconcile_chunks_MutantStop(d, st, upm) ==
    LET metadata == load_metadata(d)
        listed == UNION {Range(metadata.file_to_chunks[p]) :
                            p \in DOMAIN metadata.file_to_chunks}
                  \cap DOMAIN metadata.chunk_metadata
        failing == \E c \in listed :
                      LET servers == Range(metadata.chunk_metadata[c].chunk_servers)
                      IN \/ \E n \in servers : ~upm[n]
                         \/ \A n \in servers : c \notin DOMAIN st[n]
    IN IF failing THEN [store |-> st, puts |-> {}]
       ELSE reconcile_files([store |-> st, puts |-> {}], upm, metadata,
                            DOMAIN metadata.file_to_chunks)

\* One pass of the `while True` loop of reconcile_chunks
reconcile_chunks(d, st, upm) ==
    LET metadata == load_metadata(d)
    IN reconcile_files([store |-> st, puts |-> {}], upm, metadata,
                       DOMAIN metadata.file_to_chunks)

----------------------------------------------------------------------------
(* Spec: one request at a time *)

\* The record kept of the last request: what was asked and what came back.
\*   data    upload: the bytes sent; download: the response body
\*   chunks  upload: the identifiers registered; delete: chunks_deleted
\*   marks   upload: (chunk, node) pairs acknowledged;
\*           reconcile: (chunk, node) pairs repaired
\*   sources download: the node each chunk was read from
Hist(op, path, path2, status, data, chunks, marks, sources) ==
    [op |-> op, path |-> path, path2 |-> path2, status |-> status,
     data |-> data, chunks |-> chunks, marks |-> marks, sources |-> sources]

NoHist == Hist("none", <<>>, <<>>, 0, <<>>, <<>>, {}, <<>>)

Procs == {1, 2}

NoReq == [kind |-> "none", path |-> <<>>, path2 |-> <<>>, size |-> 0,
          ids_before |-> 0]

\* metadata.json before anything was written to it: no section, no byte.
NoRaw == [head |-> <<>>, headOk |-> FALSE, hlen |-> 0,
          tail |-> <<>>, tailOk |-> FALSE, toff |-> 0, tlen |-> 0, size |-> 0]

\* The download handler between requests.
NoDownload == [pc |-> "idle", path |-> <<>>, chunks |-> <<>>, i |-> 0, k |-> 0,
               file_data |-> <<>>, sources |-> <<>>]

\* The reconciler asleep between two cycles.
NoCycle == [pc |-> "asleep", metadata |-> EmptyMD, todo |-> <<>>]

\* The upload handler between requests.
\*   i     the number of the next file.read
\*   acks  the (chunk, node) pairs a node answered 201
\*   done  the (chunk, node) pairs whose thread has finished
NoUpload == [pc |-> "idle", path |-> <<>>, data |-> <<>>, chunks |-> <<>>,
             i |-> 0, acks |-> {}, done |-> {}]

Init ==
    /\ disk = NoFile
    /\ store = [n \in NODE_MAP |-> <<>>]
    /\ up = [n \in NODE_MAP |-> TRUE]
    /\ nextId = 0
    /\ hist = NoHist
    /\ hpc = [p \in Procs |-> "idle"]
    /\ hreq = [p \in Procs |-> NoReq]
    /\ hmd = [p \in Procs |-> EmptyMD]
    /\ hresp = [p \in Procs |-> 0]
    /\ base = EmptyMD
    /\ upl = NoUpload
    /\ puts = {}
    /\ raw = NoRaw
    /\ dl = NoDownload
    /\ rec = NoCycle

threadVars == <<hpc, hreq, hmd, hresp, base>>

uploadVars == <<upl, puts>>

stepVars == <<raw, dl, rec>>

\* A client uploads `data` as directory/filename through the gateway.
Upload(directory, filename, data) ==
    /\ nextId + chunk_count(Len(data)) <= MaxIds
    /\ LET r == upload_file(disk, store, up, nextId, directory, filename, data)
       IN /\ disk' = r.disk
          /\ store' = r.store
          /\ nextId' = nextId + Len(r.chunks)
          /\ hist' = Hist("upload", r.path, <<>>, r.status, data, r.chunks,
                          r.acks, <<>>)
    /\ UNCHANGED <<up, threadVars, uploadVars, stepVars>>

\* A client registers a file at the metadata server and sends no chunk.
\* hist.data holds the size it asked for.
CreateFile(file_path, file_size) ==
    /\ LET r == create_file(load_metadata(disk), file_path, file_size, nextId)
       IN /\ nextId + Len(r.chunks) <= MaxIds
          /\ disk' = persist(disk, r)
          /\ nextId' = nextId + Len(r.chunks)
          /\ hist' = Hist("create", file_path, <<>>, r.status, <<file_size>>,
                          r.chunks, {}, <<>>)
    /\ UNCHANGED <<store, up, threadVars, uploadVars, stepVars>>

\* A client lists the files under a prefix. hist.marks holds the answer as
\* (path, chunk_count) pairs.
ListFiles(directory) ==
    /\ LET files == list_files(load_metadata(disk), directory)
       IN hist' = Hist("list", directory, <<>>, 200, <<>>, <<>>,
                       {<<q, files[q].chunk_count>> : q \in DOMAIN files}, <<>>)
    /\ UNCHANGED <<disk, store, up, nextId, threadVars, uploadVars, stepVars>>

\* A client downloads /download/<file_path> through the gateway.
Download(file_path) ==
    /\ LET r == download_file(disk, store, up, file_path)
       IN hist' = Hist("download", decoded_path(file_path), <<>>, r.status,
                       r.body, <<>>, {}, r.sources)
    /\ UNCHANGED <<disk, store, up, nextId, threadVars, uploadVars, stepVars>>

\* A client asks the metadata server for a file.
GetFile(file_path) ==
    /\ LET r == get_file_metadata(load_metadata(disk), file_path)
       IN hist' = Hist("get", file_path, <<>>, r.status, <<>>,
                       [i \in 1..Len(r.chunks) |-> r.chunks[i].chunk_id], {}, <<>>)
    /\ UNCHANGED <<disk, store, up, nextId, threadVars, uploadVars, stepVars>>

\* A client renames a file at the metadata server.
RenameFile(old_path, new_path) ==
    /\ LET r == rename_file(load_metadata(disk), old_path, new_path)
       IN /\ disk' = persist(disk, r)
          /\ hist' = Hist("rename", old_path, new_path, r.status, <<>>, <<>>,
                          {}, <<>>)
    /\ UNCHANGED <<store, up, nextId, threadVars, uploadVars, stepVars>>

\* A client deletes a file at the metadata server.
DeleteFile(file_path) ==
    /\ LET r == delete_file(load_metadata(disk), file_path)
       IN /\ disk' = persist(disk, r)
          /\ hist' = Hist("delete", file_path, <<>>, r.status, <<>>,
                          r.chunks_deleted, {}, <<>>)
    /\ UNCHANGED <<store, up, nextId, threadVars, uploadVars, stepVars>>

\* A client deletes /delete/<file_path> through the gateway.
DeleteWeb(file_path) ==
    /\ LET r == delete_file_web(disk, file_path)
       IN /\ disk' = r.disk
          /\ hist' = Hist("delete_web", file_path, <<>>, r.status, <<>>,
                          r.chunks_deleted, {}, <<>>)
    /\ UNCHANGED <<store, up, nextId, threadVars, uploadVars, stepVars>>

\* The reconciler thread runs one cycle.
Reconcile ==
    /\ LET r == reconcile_chunks(disk, store, up)
       IN /\ store' = r.store
          /\ hist' = Hist("reconcile", <<>>, <<>>, 0, <<>>, <<>>, r.puts, <<>>)
    /\ UNCHANGED <<disk, up, nextId, threadVars, uploadVars, stepVars>>

\* A chunk file is removed from a node's directory behind the API.
ChunkLost(n, chunk_id) ==
    /\ chunk_id \in DOMAIN store[n]
    /\ store' = [store EXCEPT ![n] = DictDel(@, chunk_id)]
    /\ hist' = Hist("chunk_lost", <<>>, <<>>, 0, <<>>, <<>>, {}, <<>>)
    /\ UNCHANGED <<disk, up, nextId, threadVars, uploadVars, stepVars>>

\* A node stops accepting connections; its chunk directory stays.
NodeDown(n) ==
    /\ up[n]
    /\ Cardinality({m \in NODE_MAP : ~up[m]}) < MaxDown
    /\ up' = [up EXCEPT ![n] = FALSE]
    /\ hist' = Hist("node_down", <<>>, <<>>, 0, <<>>, <<>>, {}, <<>>)
    /\ UNCHANGED <<disk, store, nextId, threadVars, uploadVars, stepVars>>

\* A node accepts connections again.
NodeUp(n) ==
    /\ ~up[n]
    /\ up' = [up EXCEPT ![n] = TRUE]
    /\ hist' = Hist("node_up", <<>>, <<>>, 0, <<>>, <<>>, {}, <<>>)
    /\ UNCHANGED <<disk, store, nextId, threadVars, uploadVars, stepVars>>

Next ==
    \/ \E d \in Directories, f \in Filenames, data \in Datas : Upload(d, f, data)
    \/ \E u \in UrlPaths : Download(u)
    \/ \E p \in Paths : GetFile(p)
    \/ \E p \in Paths, q \in Paths : RenameFile(p, q)
    \/ \E p \in Paths : DeleteFile(p)
    \/ \E u \in UrlPaths : DeleteWeb(u)
    \/ \E p \in Paths, n \in CreateSizes : CreateFile(p, n)
    \/ \E d \in Prefixes : ListFiles(d)

Spec == Init /\ [][Next]_vars

----------------------------------------------------------------------------
(* SpecFault: one request at a time, with replica loss, node outages and   *)
(* the reconciler                                                          *)

NextFault ==
    \/ \E d \in Directories, f \in Filenames, data \in Datas : Upload(d, f, data)
    \/ \E u \in UrlPaths : Download(u)
    \/ \E p \in Paths, q \in Paths : RenameFile(p, q)
    \/ \E p \in Paths : DeleteFile(p)
    \/ Reconcile
    \/ \E n \in NODE_MAP, c \in ChunkIds : ChunkLost(n, c)
    \/ \E n \in NODE_MAP : NodeDown(n)
    \/ \E n \in NODE_MAP : NodeUp(n)

SpecFault == Init /\ [][NextFault]_vars

----------------------------------------------------------------------------
(* SpecNode: clients call the endpoints of the chunk nodes directly. In    *)
(* hist, sources holds the node and chunks the chunk identifier.           *)

\* The request bodies sent to POST /chunk: at most one chunk of bytes.
ChunkDatas == {b \in Datas : Len(b) <= CHUNK_SIZE}

\* POST /chunk. hist.marks holds what the node stored under the identifier
\* before the request.
NodePut(n, chunk_id, chunk_data) ==
    /\ LET r == upload_chunk(store[n], chunk_id, chunk_data)
       IN /\ store' = [store EXCEPT ![n] = r.blobs]
          /\ hist' = Hist("put", <<>>, <<>>, r.status, chunk_data, <<chunk_id>>,
                          IF chunk_id \in DOMAIN store[n]
                          THEN {store[n][chunk_id]} ELSE {},
                          <<n>>)
    /\ UNCHANGED <<disk, up, nextId, threadVars, uploadVars, stepVars>>

\* GET /chunk/<chunk_id>
NodeGet(n, chunk_id) ==
    /\ LET r == download_chunk(store[n], chunk_id)
       IN hist' = Hist("get_chunk", <<>>, <<>>, r.status, r.content,
                       <<chunk_id>>, {}, <<n>>)
    /\ UNCHANGED <<disk, store, up, nextId, threadVars, uploadVars, stepVars>>

\* DELETE /chunk/<chunk_id>
NodeDelete(n, chunk_id) ==
    /\ LET r == delete_chunk(store[n], chunk_id)
       IN /\ store' = [store EXCEPT ![n] = r.blobs]
          /\ hist' = Hist("delete_chunk", <<>>, <<>>, r.status, <<>>,
                          <<chunk_id>>, {}, <<n>>)
    /\ UNCHANGED <<disk, up, nextId, threadVars, uploadVars, stepVars>>

\* GET /chunk/<chunk_id>/exists. hist.marks holds the `exists` field.
NodeExists(n, chunk_id) ==
    /\ LET r == check_chunk_exists(store[n], chunk_id)
       IN hist' = Hist("exists", <<>>, <<>>, r.status, <<>>, <<chunk_id>>,
                       {r.exists}, <<n>>)
    /\ UNCHANGED <<disk, store, up, nextId, threadVars, uploadVars, stepVars>>

NextNode ==
    \/ \E n \in NODE_MAP, c \in ChunkIds, b \in ChunkDatas : NodePut(n, c, b)
    \/ \E n \in NODE_MAP, c \in ChunkIds : NodeGet(n, c)
    \/ \E n \in NODE_MAP, c \in ChunkIds : NodeDelete(n, c)
    \/ \E n \in NODE_MAP, c \in ChunkIds : NodeExists(n, c)

SpecNode == Init /\ [][NextNode]_vars

----------------------------------------------------------------------------
(* SpecUpload: upload_file step by step. The handler registers the file,   *)
(* reads it chunk by chunk and starts one thread per chunk and node; the   *)
(* threads run async_upload_chunk whenever they are scheduled; the handler *)
(* joins them and answers.                                                 *)

\* A fan-out that sends to every node under the identifier before the
\* chunk's own.
start_threads_Mutant(chunk_data, chunk_id) ==
    {[node_id    |-> upload_nodes[k],
      chunk_data |-> chunk_data,
      chunk_id   |-> IF chunk_id > 1 THEN chunk_id - 1 ELSE chunk_id] :
        k \in 1..Len(upload_nodes)}

\* `for node_id in ["node1", "node2"]`: the threads started for one chunk,
\* each with its own arguments.
start_threads(chunk_data, chunk_id) ==
    {[node_id |-> upload_nodes[k], chunk_data |-> chunk_data,
      chunk_id |-> chunk_id] : k \in 1..Len(upload_nodes)}

\* A join that does not wait.
joined_Mutant(threads) == TRUE

\* `for thread in threads: thread.join()` returns once every thread has
\* finished.
joined(threads) == threads = {}

\* upload_file up to the `while True` loop: the file is registered.
UploadBegin(directory, filename, data) ==
    /\ upl.pc = "idle"
    /\ filename # <<>>
    /\ nextId + chunk_count(Len(data)) <= MaxIds
    /\ LET file_path == path_join(directory, filename)
           file_info == create_file(load_metadata(disk), file_path, Len(data),
                                    nextId)
       IN /\ disk' = persist(disk, file_info)
          /\ nextId' = nextId + Len(file_info.chunks)
          /\ upl' = [NoUpload EXCEPT !.pc = "reading", !.path = file_path,
                                     !.data = data, !.chunks = file_info.chunks,
                                     !.i = 1]
          /\ hist' = Hist("upload_begin", file_path, <<>>, 0, data,
                          file_info.chunks, {}, <<>>)
    /\ UNCHANGED <<store, up, puts, threadVars, stepVars>>

\* One iteration of the `while True` loop: read a chunk; at the end of the
\* file go on to the joins; with more chunks than identifiers answer 500;
\* otherwise start the threads of the chunk.
UploadRead ==
    /\ upl.pc = "reading"
    /\ LET chunk_data == file_read(upl.data, upl.i)
       IN IF chunk_data = <<>>
          THEN /\ upl' = [upl EXCEPT !.pc = "joining"]
               /\ UNCHANGED <<puts, hist>>
          ELSE IF upl.i > Len(upl.chunks)
          THEN /\ upl' = NoUpload
               /\ hist' = Hist("upload", upl.path, <<>>, 500, upl.data,
                               upl.chunks, upl.acks, <<>>)
               /\ UNCHANGED puts
          ELSE /\ puts' = puts \cup start_threads(chunk_data, upl.chunks[upl.i])
               /\ upl' = [upl EXCEPT !.i = @ + 1]
               /\ UNCHANGED hist
    /\ UNCHANGED <<disk, store, up, nextId, threadVars, stepVars>>

\* The byte strings file.read(CHUNK_SIZE) can hand to a thread: the slices of
\* the uploaded bodies of at most CHUNK_SIZE bytes.
Slices == {[k \in 1..n |-> s + k] : s \in 0..MaxLen, n \in 0..CHUNK_SIZE}

\* A started thread runs async_upload_chunk to its end.
PutDone(t) ==
    /\ t \in puts
    /\ LET r == async_upload_chunk(store, up, t.node_id, t.chunk_data, t.chunk_id)
       IN /\ store' = r.store
          /\ upl' = [upl EXCEPT
                       !.done = @ \cup {<<t.chunk_id, t.node_id>>},
                       !.acks = IF r.status = 201
                                THEN @ \cup {<<t.chunk_id, t.node_id>>} ELSE @]
    /\ puts' = puts \ {t}
    /\ UNCHANGED <<disk, up, nextId, hist, threadVars, stepVars>>

\* The joins return and the handler answers 200.
UploadRespond ==
    /\ upl.pc = "joining"
    /\ joined(puts)
    /\ hist' = Hist("upload", upl.path, <<>>, 200, upl.data, upl.chunks,
                    upl.acks, <<>>)
    /\ upl' = NoUpload
    /\ UNCHANGED <<disk, store, up, nextId, puts, threadVars, stepVars>>

NextUpload ==
    \/ \E d \in Directories, f \in Filenames, data \in Datas :
          UploadBegin(d, f, data)
    \/ UploadRead
    \/ \E n \in NODE_MAP, c \in ChunkIds, b \in Slices :
          PutDone([node_id |-> n, chunk_data |-> b, chunk_id |-> c])
    \/ UploadRespond
    \/ \E n \in NODE_MAP : NodeDown(n)
    \/ \E n \in NODE_MAP : NodeUp(n)

SpecUpload == Init /\ [][NextUpload]_vars

----------------------------------------------------------------------------
(* SpecIO: requests to the metadata server, one at a time, whose write of  *)
(* metadata.json can fail. In hist, sources holds how the write went.      *)

\* How a write of metadata.json can go: it succeeds, open() raises (the file
\* is not writable), or json.dump raises after the file was opened (the
\* disk is full).
IOOutcomes == {"ok", "open_fails", "dump_fails"}

\* save_metadata with its try/except: an exception is logged and the
\* function returns normally, leaving the file as the failure left it.
save_metadata_io(d, metadata, io) ==
    CASE io = "ok"         -> save_metadata(d, metadata)
      [] io = "open_fails" -> d
      [] io = "dump_fails" -> open_for_write(d)

\* What a handler leaves in metadata.json when its write goes as `io`.
persist_io(d, result, io) ==
    IF result.save THEN save_metadata_io(d, result.md, io) ELSE d

CreateFileIO(file_path, file_size, io) ==
    /\ LET r == create_file(load_metadata(disk), file_path, file_size, nextId)
       IN /\ nextId + Len(r.chunks) <= MaxIds
          /\ disk' = persist_io(disk, r, io)
          /\ nextId' = nextId + Len(r.chunks)
          /\ hist' = Hist("create", file_path, <<>>, r.status, <<file_size>>,
                          r.chunks, {}, <<io>>)
    /\ UNCHANGED <<store, up, threadVars, uploadVars, stepVars>>

RenameFileIO(old_path, new_path, io) ==
    /\ LET r == rename_file(load_metadata(disk), old_path, new_path)
       IN /\ disk' = persist_io(disk, r, io)
          /\ hist' = Hist("rename", old_path, new_path, r.status, <<>>, <<>>,
                          {}, <<io>>)
    /\ UNCHANGED <<store, up, nextId, threadVars, uploadVars, stepVars>>

DeleteFileIO(file_path, io) ==
    /\ LET r == delete_file(load_metadata(disk), file_path)
       IN /\ disk' = persist_io(disk, r, io)
          /\ hist' = Hist("delete", file_path, <<>>, r.status, <<>>,
                          r.chunks_deleted, {}, <<io>>)
    /\ UNCHANGED <<store, up, nextId, threadVars, uploadVars, stepVars>>

NextIO ==
    \/ \E p \in Paths, n \in 0..MaxLen, io \in IOOutcomes :
          CreateFileIO(p, n, io)
    \/ \E p \in Paths, q \in Paths, io \in IOOutcomes : RenameFileIO(p, q, io)
    \/ \E p \in Paths, io \in IOOutcomes : DeleteFileIO(p, io)

SpecIO == Init /\ [][NextIO]_vars

----------------------------------------------------------------------------
(* SpecConc: the metadata server's request threads (Flask serves each      *)
(* request on its own thread). A mutating handler touches metadata.json    *)
(* three times: load_metadata reads it, save_metadata opens it for writing *)
(* (which empties it) and then dumps the dictionary. What the handler does *)
(* to its dictionary in between is local to the thread.                    *)

\* Keys the concurrent clients name.
MetaPaths == Paths \cup {path_join(Slash, <<"c">>)}

Sizes == 0..MaxLen

AllIdle == \A p \in Procs : hpc[p] = "idle"

Quiet == \A p \in Procs : hpc[p] \in {"idle", "done"}

\* A thread has run its handler from the request to the end of the changes
\* it makes to the loaded dictionary: either it answers at once (404) or it
\* goes on to save_metadata.
Loaded(p, req, result) ==
    /\ hreq' = [hreq EXCEPT ![p] = req]
    /\ hmd' = [hmd EXCEPT ![p] = result.md]
    /\ hpc' = [hpc EXCEPT ![p] = IF result.save THEN "loaded" ELSE "done"]
    /\ hresp' = [hresp EXCEPT ![p] = IF result.save THEN 0 ELSE result.status]
    /\ base' = IF AllIdle THEN load_metadata(disk) ELSE base
    /\ hist' = NoHist
    /\ UNCHANGED <<disk, store, up, uploadVars, stepVars>>

\* create_file up to `metadata['chunk_metadata'] = chunk_metadata`
CreateLoad(p, file_path, file_size) ==
    /\ hpc[p] = "idle"
    /\ nextId + chunk_count(file_size) <= MaxIds
    /\ nextId' = nextId + chunk_count(file_size)
    /\ Loaded(p, [kind |-> "create", path |-> file_path, path2 |-> <<>>,
                  size |-> file_size, ids_before |-> nextId],
              create_file(load_metadata(disk), file_path, file_size, nextId))

\* rename_file up to `metadata["file_to_chunks"] = file_to_chunks`
RenameLoad(p, old_path, new_path) ==
    /\ hpc[p] = "idle"
    /\ nextId' = nextId
    /\ Loaded(p, [kind |-> "rename", path |-> old_path, path2 |-> new_path,
                  size |-> 0, ids_before |-> nextId],
              rename_file(load_metadata(disk), old_path, new_path))

\* delete_file up to `metadata['chunk_metadata'] = chunk_metadata`
DeleteLoad(p, file_path) ==
    /\ hpc[p] = "idle"
    /\ nextId' = nextId
    /\ Loaded(p, [kind |-> "delete", path |-> file_path, path2 |-> <<>>,
                  size |-> 0, ids_before |-> nextId],
              delete_file(load_metadata(disk), file_path))

\* save_metadata: open(METADATA_FILE, 'w')
OpenForWrite(p) ==
    /\ hpc[p] = "loaded"
    /\ disk' = open_for_write(disk)
    /\ hpc' = [hpc EXCEPT ![p] = "writing"]
    /\ UNCHANGED <<store, up, nextId, hist, hreq, hmd, hresp, base, uploadVars, stepVars>>

\* save_metadata: json.dump and close; then the handler answers 200.
Dump(p) ==
    /\ hpc[p] = "writing"
    /\ disk' = write_dump(disk, hmd[p])
    /\ hpc' = [hpc EXCEPT ![p] = "done"]
    /\ hresp' = [hresp EXCEPT ![p] = 200]
    /\ UNCHANGED <<store, up, nextId, hist, hreq, hmd, base, uploadVars, stepVars>>

\* Every request has been answered; the threads take new requests.
NextRound ==
    /\ Quiet /\ ~AllIdle
    /\ hpc' = [p \in Procs |-> "idle"]
    /\ hreq' = [p \in Procs |-> NoReq]
    /\ hmd' = [p \in Procs |-> EmptyMD]
    /\ hresp' = [p \in Procs |-> 0]
    /\ base' = load_metadata(disk)
    /\ UNCHANGED <<disk, store, up, nextId, hist, uploadVars, stepVars>>

ThreadStep(p) ==
    \/ \E f \in MetaPaths, n \in Sizes : CreateLoad(p, f, n)
    \/ \E f \in MetaPaths, g \in MetaPaths : RenameLoad(p, f, g)
    \/ \E f \in MetaPaths : DeleteLoad(p, f)
    \/ OpenForWrite(p)
    \/ Dump(p)

NextConc ==
    \/ \E p \in Procs : ThreadStep(p)
    \/ NextRound

SpecConc == Init /\ [][NextConc]_vars

----------------------------------------------------------------------------
(* SpecCrash: one request thread, and the metadata process can be killed   *)
(* while a handler is between load_metadata and the end of save_metadata.  *)
(* The file stays as the kill found it; the restarted server is idle.      *)

Crash ==
    /\ \E p \in Procs :
          /\ hpc[p] \in {"loaded", "writing"}
          /\ hist' = Hist("crash", hreq[p].path, hreq[p].path2, 0, <<>>,
                          IF hreq[p].kind = "rename"
                          THEN base.file_to_chunks[hreq[p].path] ELSE <<>>,
                          {}, <<hreq[p].kind, hpc[p]>>)
    /\ hpc' = [p \in Procs |-> "idle"]
    /\ hreq' = [p \in Procs |-> NoReq]
    /\ hmd' = [p \in Procs |-> EmptyMD]
    /\ hresp' = [p \in Procs |-> 0]
    /\ base' = load_metadata(disk)
    /\ UNCHANGED <<disk, store, up, nextId, uploadVars, stepVars>>

NextCrash ==
    \/ ThreadStep(1)
    \/ NextRound
    \/ Crash

SpecCrash == Init /\ [][NextCrash]_vars

----------------------------------------------------------------------------
(* SpecBlocks: the request threads of SpecConc, with the text of a dump    *)
(* reaching metadata.json in two writes. The file object open() returns    *)
(* buffers what json.dump writes and hands it to the file whenever its     *)
(* buffer is full, and the rest when the `with` block closes it, each      *)
(* write at the offset where the handle's previous one ended. The model    *)
(* puts the boundary where the chunk_metadata section of the text starts.  *)

\* The number of characters of the text before its chunk_metadata section:
\* the text with an empty chunk_metadata, less the 24 characters that
\* section and the closing brace then take.
head_size(metadata) ==
    json_size([metadata EXCEPT !.chunk_metadata = <<>>]) - 24

tail_size(metadata) == json_size(metadata) - head_size(metadata)

Max(a, b) == IF a >= b THEN a ELSE b

\* The first write of a dump: the text up to the chunk_metadata section, at
\* offset 0. It runs over a section another handle wrote at a lower offset.
write_head(r, metadata) ==
    [r EXCEPT !.head = metadata.file_to_chunks,
              !.headOk = TRUE,
              !.hlen = head_size(metadata),
              !.tailOk = r.tailOk /\ r.toff >= head_size(metadata),
              !.size = Max(r.size, head_size(metadata))]

\* The last write of a dump: the chunk_metadata section and the closing
\* brace, at the offset where this handle's first write ended.
write_tail(r, metadata) ==
    [r EXCEPT !.tail = metadata.chunk_metadata,
              !.tailOk = TRUE,
              !.toff = head_size(metadata),
              !.tlen = tail_size(metadata),
              !.headOk = r.headOk /\ r.hlen <= head_size(metadata),
              !.size = Max(r.size, json_size(metadata))]

\* The file as json.load finds it: it parses when a whole file_to_chunks
\* section is followed at once by a whole chunk_metadata section that ends
\* the file, whichever handles wrote the two.
file_of(r) ==
    IF r.headOk /\ r.tailOk /\ r.toff = r.hlen /\ r.size = r.toff + r.tlen
    THEN [valid |-> TRUE,
          md |-> [file_to_chunks |-> r.head, chunk_metadata |-> r.tail],
          size |-> r.size]
    ELSE [valid |-> FALSE, md |-> EmptyMD, size |-> r.size]

\* save_metadata: open(METADATA_FILE, 'w')
OpenRaw(p) ==
    /\ hpc[p] = "loaded"
    /\ raw' = NoRaw
    /\ disk' = file_of(raw')
    /\ hpc' = [hpc EXCEPT ![p] = "writing"]
    /\ UNCHANGED <<store, up, nextId, hist, hreq, hmd, hresp, base, uploadVars,
                   dl, rec>>

\* save_metadata: json.dump fills the buffer and the buffer is written out.
DumpFlush(p) ==
    /\ hpc[p] = "writing"
    /\ raw' = write_head(raw, hmd[p])
    /\ disk' = file_of(raw')
    /\ hpc' = [hpc EXCEPT ![p] = "flushed"]
    /\ UNCHANGED <<store, up, nextId, hist, hreq, hmd, hresp, base, uploadVars,
                   dl, rec>>

\* save_metadata: the `with` block closes the file, which writes out the
\* rest of the text; then the handler answers 200.
DumpClose(p) ==
    /\ hpc[p] = "flushed"
    /\ raw' = write_tail(raw, hmd[p])
    /\ disk' = file_of(raw')
    /\ hpc' = [hpc EXCEPT ![p] = "done"]
    /\ hresp' = [hresp EXCEPT ![p] = 200]
    /\ UNCHANGED <<store, up, nextId, hist, hreq, hmd, base, uploadVars,
                   dl, rec>>

BlockStep(p) ==
    \/ \E f \in Paths, n \in Sizes : CreateLoad(p, f, n)
    \/ \E f \in Paths, g \in Paths : RenameLoad(p, f, g)
    \/ \E f \in Paths : DeleteLoad(p, f)
    \/ OpenRaw(p)
    \/ DumpFlush(p)
    \/ DumpClose(p)

NextBlocks ==
    \/ \E p \in Procs : BlockStep(p)
    \/ NextRound

SpecBlocks == Init /\ [][NextBlocks]_vars

----------------------------------------------------------------------------
(* SpecRead: the gateway's download handler step by step. Between the      *)
(* handler's requests to the nodes (the Exists probe of a replica, the Get *)
(* that follows a positive probe) chunk files can be removed, nodes can    *)
(* stop and start, and other clients upload.                               *)

\* The handler answers and is free for the next request.
DownloadRespond(status, body, sources) ==
    /\ hist' = Hist("download", dl.path, <<>>, status, body, <<>>, {}, sources)
    /\ dl' = NoDownload

\* download_file up to the chunk loop: the path is decoded and looked up at
\* the metadata server. A file without chunks never binds file_data, and
\* send_file raises NameError (500).
DownloadBegin(file_path) ==
    /\ dl.pc = "idle"
    /\ LET metadata == get_file_metadata(load_metadata(disk),
                                         decoded_path(file_path))
       IN /\ hist' = IF metadata.status = 404 \/ metadata.chunks = <<>>
                      THEN Hist("download", decoded_path(file_path), <<>>,
                                IF metadata.status = 404 THEN 404 ELSE 500,
                                <<>>, <<>>, {}, <<>>)
                      ELSE hist
          /\ dl' = IF metadata.status = 404 \/ metadata.chunks = <<>>
                   THEN NoDownload
                   ELSE [pc |-> "probe", path |-> decoded_path(file_path),
                         chunks |-> metadata.chunks, i |-> 1, k |-> 1,
                         file_data |-> <<>>, sources |-> <<>>]
    /\ UNCHANGED <<disk, store, up, nextId, threadVars, uploadVars, raw, rec>>

\* GET /chunk/<chunk_id>/exists at the k-th server of the i-th chunk, after
\* `file_data = bytearray()` when it is the first. A positive answer leads
\* to the Get, a negative one to the second server or to a 500; a request
\* to an unreachable node raises (500).
DownloadProbe ==
    /\ dl.pc = "probe"
    /\ LET chunk == dl.chunks[dl.i]
           node_id == chunk.chunk_servers[dl.k]
           response == check_chunk_exists(store[node_id], chunk.chunk_id)
       IN IF ~up[node_id]
          THEN DownloadRespond(500, <<>>, dl.sources)
          ELSE IF response.status = 200 /\ response.exists
          THEN /\ dl' = [dl EXCEPT !.pc = "get", !.file_data = <<>>]
               /\ UNCHANGED hist
          ELSE IF dl.k = 1 /\ Len(chunk.chunk_servers) > 1
          THEN /\ dl' = [dl EXCEPT !.k = 2, !.file_data = <<>>]
               /\ UNCHANGED hist
          ELSE DownloadRespond(500, <<>>, dl.sources)
    /\ UNCHANGED <<disk, store, up, nextId, threadVars, uploadVars, raw, rec>>

\* GET /chunk/<chunk_id> at the server whose probe was positive, and
\* `file_data.extend(response.content)`: the status of the answer is not
\* looked at. After the last chunk send_file answers 200.
DownloadGet ==
    /\ dl.pc = "get"
    /\ LET chunk == dl.chunks[dl.i]
           node_id == chunk.chunk_servers[dl.k]
           response == download_chunk(store[node_id], chunk.chunk_id)
           file_data == dl.file_data \o response.content
           sources == Append(dl.sources, node_id)
       IN IF ~up[node_id]
          THEN DownloadRespond(500, <<>>, dl.sources)
          ELSE IF dl.i = Len(dl.chunks)
          THEN DownloadRespond(200, file_data, sources)
          ELSE /\ dl' = [dl EXCEPT !.pc = "probe", !.i = @ + 1, !.k = 1,
                                   !.file_data = file_data,
                                   !.sources = sources]
               /\ UNCHANGED hist
    /\ UNCHANGED <<disk, store, up, nextId, threadVars, uploadVars, raw, rec>>

NextRead ==
    \/ \E d \in Directories, f \in Filenames, data \in Datas : Upload(d, f, data)
    \/ \E p \in UrlPaths : DownloadBegin(p)
    \/ DownloadProbe
    \/ DownloadGet
    \/ \E n \in NODE_MAP, c \in ChunkIds : ChunkLost(n, c)
    \/ \E n \in NODE_MAP : NodeDown(n)
    \/ \E n \in NODE_MAP : NodeUp(n)

SpecRead == Init /\ [][NextRead]_vars

----------------------------------------------------------------------------
(* SpecCycle: the reconciler's thread step by step. A cycle loads          *)
(* metadata.json once and then visits every server of every chunk of every *)
(* file of that copy; the request threads serve uploads and deletes, and   *)
(* chunk files can be removed, between two visits.                         *)

\* The (chunk, server) pairs `for chunk_id in chunk_ids` visits from the j-th
\* chunk on, in order; a chunk without a record is skipped.
RECURSIVE file_visits(_, _, _)
file_visits(chunk_metadata, chunk_ids, j) ==
    IF j > Len(chunk_ids) THEN <<>>
    ELSE (IF chunk_ids[j] \in DOMAIN chunk_metadata
          THEN LET chunk_servers == chunk_metadata[chunk_ids[j]].chunk_servers
               IN [k \in 1..Len(chunk_servers) |->
                     <<chunk_ids[j], chunk_servers[k]>>]
          ELSE <<>>)
         \o file_visits(chunk_metadata, chunk_ids, j + 1)

\* The pairs a cycle visits, over the files in `left`.
RECURSIVE cycle_visits(_, _)
cycle_visits(metadata, left) ==
    IF left = {} THEN <<>>
    ELSE LET file_path == CHOOSE p \in left : TRUE
         IN file_visits(metadata.chunk_metadata,
                        metadata.file_to_chunks[file_path], 1)
            \o cycle_visits(metadata, left \ {file_path})

\* The top of `while True`: the reconciler wakes up and loads metadata.json.
CycleBegin ==
    /\ rec.pc = "asleep"
    /\ LET metadata == load_metadata(disk)
           todo == cycle_visits(metadata, DOMAIN metadata.file_to_chunks)
       IN rec' = [pc |-> IF todo = <<>> THEN "asleep" ELSE "running",
                  metadata |-> IF todo = <<>> THEN EmptyMD ELSE metadata,
                  todo |-> todo]
    /\ hist' = Hist("cycle_begin", <<>>, <<>>, 0, <<>>, <<>>, {}, <<>>)
    /\ UNCHANGED <<disk, store, up, nextId, threadVars, uploadVars, raw, dl>>

\* One iteration of `for node_id in chunk_servers`, on the copy of the
\* metadata the cycle loaded; after the last one the thread sleeps.
\* hist.marks holds the (chunk, node) pair when the visit uploaded the chunk.
CycleVisit ==
    /\ rec.pc = "running"
    /\ LET chunk_id == Head(rec.todo)[1]
           node_id == Head(rec.todo)[2]
           acc == repair_replica(
                      [store |-> store, puts |-> {}], up, chunk_id,
                      rec.metadata.chunk_metadata[chunk_id].chunk_servers,
                      node_id)
           last == Len(rec.todo) = 1
       IN /\ store' = acc.store
          /\ rec' = [pc |-> IF last THEN "asleep" ELSE "running",
                     metadata |-> IF last THEN EmptyMD ELSE rec.metadata,
                     todo |-> Tail(rec.todo)]
          /\ hist' = Hist("visit", <<>>, <<>>, 0, <<>>, <<chunk_id>>,
                          acc.puts, <<node_id>>)
    /\ UNCHANGED <<disk, up, nextId, threadVars, uploadVars, raw, dl>>

NextCycle ==
    \/ \E d \in Directories, f \in Filenames, data \in Datas : Upload(d, f, data)
    \/ \E p \in Paths : DeleteFile(p)
    \/ \E n \in NODE_MAP, c \in ChunkIds : ChunkLost(n, c)
    \/ CycleBegin
    \/ CycleVisit

SpecCycle == Init /\ [][NextCycle]_vars

----------------------------------------------------------------------------
(* Claims *)

AllUp == \A n \in NODE_MAP : up[n]

Holds(st, n, chunk_id) == check_chunk_exists(st[n], chunk_id).exists

\* C1: a file uploaded through the gateway and downloaded at the same path
\* right after, with every node reachable, comes back with status 200 and
\* exactly the uploaded bytes, whatever its length.
C1_RoundTrip ==
    [][(/\ hist.op = "upload" /\ hist.status = 200
        /\ AllUp
        /\ hist'.op = "download" /\ hist'.path = hist.path)
       => (hist'.status = 200 /\ hist'.data = hist.data)]_vars

\* The file a download resolves, as the metadata server reports it.
Resolved(d, file_path) == get_file_metadata(load_metadata(d), file_path)

\* C2: when every node is reachable, every chunk of a file is held by one of
\* its replicas and some chunk is gone from its primary, a download answers
\* 200 and reads each such chunk from a replica other than the primary that
\* holds it.
C2_ReplicaFallback ==
    [][(/\ hist'.op = "download"
        /\ AllUp
        /\ Resolved(disk, hist'.path).status = 200
        /\ LET chunks == Resolved(disk, hist'.path).chunks
           IN /\ \A i \in DOMAIN chunks :
                    \E n \in Range(chunks[i].chunk_servers) :
                        Holds(store, n, chunks[i].chunk_id)
              /\ \E i \in DOMAIN chunks :
                    ~Holds(store, chunks[i].chunk_servers[1], chunks[i].chunk_id))
       => LET chunks == Resolved(disk, hist'.path).chunks
          IN /\ hist'.status = 200
             /\ Len(hist'.sources) = Len(chunks)
             /\ \A i \in DOMAIN chunks :
                   ~Holds(store, chunks[i].chunk_servers[1], chunks[i].chunk_id)
                   => /\ hist'.sources[i] \in Range(chunks[i].chunk_servers)
                      /\ hist'.sources[i] # chunks[i].chunk_servers[1]
                      /\ Holds(store, hist'.sources[i], chunks[i].chunk_id)]_vars

\* C2 witness: a download answered 200 after reading a chunk, absent from its
\* primary, from the second replica.
C2_Witness ==
    /\ hist.op = "download" /\ hist.status = 200 /\ AllUp
    /\ LET chunks == Resolved(disk, hist.path).chunks
       IN \E i \in DOMAIN chunks :
             /\ ~Holds(store, chunks[i].chunk_servers[1], chunks[i].chunk_id)
             /\ hist.sources[i] = chunks[i].chunk_servers[2]

\* C3: a reconciliation cycle run with every node reachable leaves every
\* chunk of every file that some assigned replica held present on all of its
\* assigned replicas, with the bytes the surviving replica had.
C3_SelfHealing ==
    [][(hist'.op = "reconcile" /\ AllUp)
       => LET md == load_metadata(disk)
          IN \A p \in DOMAIN md.file_to_chunks :
               \A c \in Range(md.file_to_chunks[p]) \cap DOMAIN md.chunk_metadata :
                 LET servers == Range(md.chunk_metadata[c].chunk_servers)
                 IN \A m \in servers :
                      Holds(store, m, c)
                      => \A n \in servers :
                            /\ Holds(store', n, c)
                            /\ store'[n][c] = store[m][c]]_vars

\* C3 witness: a cycle, run with every node reachable, that uploaded a chunk
\* to a replica that had lost it.
C3_Witness ==
    /\ hist.op = "reconcile" /\ AllUp
    /\ hist.marks # {}
    /\ \A mark \in hist.marks : Holds(store, mark[2], mark[1])

\* C6: an upload answered 200 means every replica assigned to every chunk of
\* the file acknowledged its Put.
C6_UploadSuccessMeansAllAcked ==
    (hist.op = "upload" /\ hist.status = 200)
    => \A c \in Range(hist.chunks) :
         \A n \in Range(load_metadata(disk).chunk_metadata[c].chunk_servers) :
            <<c, n>> \in hist.marks

\* C7: right after a DeleteFile answered 200, the path and every chunk record
\* of its chunk sequence are gone from metadata.json and GetFile answers 404;
\* and a path absent from metadata.json stays absent until an upload creates
\* or a CreateFile creates it or a rename moves a file onto it.
C7_DeleteRemovesEntry ==
    [][/\ (hist'.op = "delete" /\ hist'.status = 200)
          => LET after == load_metadata(disk')
             IN /\ hist'.path \in DOMAIN load_metadata(disk).file_to_chunks
                /\ hist'.chunks = load_metadata(disk).file_to_chunks[hist'.path]
                /\ hist'.path \notin DOMAIN after.file_to_chunks
                /\ Range(hist'.chunks) \cap DOMAIN after.chunk_metadata = {}
                /\ get_file_metadata(after, hist'.path).status = 404
       /\ \A p \in Paths :
            (/\ p \notin DOMAIN load_metadata(disk).file_to_chunks
             /\ p \in DOMAIN load_metadata(disk').file_to_chunks)
            => \/ hist'.op \in {"upload", "create"} /\ hist'.path = p
               \/ hist'.op = "rename" /\ hist'.path2 = p]_vars

\* C7 witness: a DeleteFile answered 200 for a file that had chunks.
C7_Witness ==
    /\ hist.op = "delete" /\ hist.status = 200
    /\ hist.chunks # <<>>
    /\ get_file_metadata(load_metadata(disk), hist.path).status = 404

\* C8: after a delete answered 200 with every node reachable, no node still
\* holds a chunk of the deleted file.
C8_DeleteReachesNodes ==
    (hist.op \in {"delete", "delete_web"} /\ hist.status = 200 /\ AllUp)
    => \A c \in Range(hist.chunks) : \A n \in NODE_MAP : ~Holds(store, n, c)

\* C9: a RenameFile(old, new) answered 200 with old # new leaves at new the
\* chunk sequence old had, GetFile(old) answers 404, and a download of new
\* answers what a download of old answered before.
C9_RenamePreservesContent ==
    [][(hist'.op = "rename" /\ hist'.status = 200 /\ hist'.path # hist'.path2)
       => LET old_path == hist'.path
              new_path == hist'.path2
              before   == load_metadata(disk)
              after    == load_metadata(disk')
          IN /\ old_path \in DOMAIN before.file_to_chunks
             /\ new_path \in DOMAIN after.file_to_chunks
             /\ after.file_to_chunks[new_path] = before.file_to_chunks[old_path]
             /\ get_file_metadata(after, old_path).status = 404
             /\ get_file_metadata(after, new_path)
                    = get_file_metadata(before, old_path)
             /\ download_file(disk', store', up', Tail(new_path))
                    = download_file(disk, store, up, Tail(old_path))]_vars

\* C9 witness: a rename to another path answered 200 and the new path lists
\* chunks.
C9_Witness ==
    /\ hist.op = "rename" /\ hist.status = 200 /\ hist.path # hist.path2
    /\ hist.path2 \in DOMAIN load_metadata(disk).file_to_chunks
    /\ Len(load_metadata(disk).file_to_chunks[hist.path2]) = 2

\* What a request leaves in the dictionary when it runs alone.
ApplyReq(metadata, req) ==
    CASE req.kind = "create" ->
             create_file(metadata, req.path, req.size, req.ids_before).md
      [] req.kind = "rename" -> rename_file(metadata, req.path, req.path2).md
      [] req.kind = "delete" -> delete_file(metadata, req.path).md
      [] OTHER -> metadata

\* The dictionaries the requests of the threads in `left` can leave when
\* they run one after another, in any order, from `metadata`.
RECURSIVE Outcomes(_, _)
Outcomes(metadata, left) ==
    IF left = {} THEN {metadata}
    ELSE UNION {Outcomes(ApplyReq(metadata, hreq[p]), left \ {p}) : p \in left}

PathsOf(req) == {req.path} \cup (IF req.kind = "rename" THEN {req.path2} ELSE {})

\* C4: once two CreateFile calls on different paths have both returned,
\* metadata.json lists both paths, each with the chunk sequence its call
\* generated and a chunk record for every chunk of it.
C4_NoLostCreate ==
    \A p \in Procs : \A q \in Procs \ {p} :
        (/\ hpc[p] = "done" /\ hpc[q] = "done"
         /\ hreq[p].kind = "create" /\ hreq[q].kind = "create"
         /\ hreq[p].path # hreq[q].path)
        => LET md == load_metadata(disk)
               chunks == [i \in 1..chunk_count(hreq[p].size) |->
                             hreq[p].ids_before + i]
           IN /\ hreq[p].path \in DOMAIN md.file_to_chunks
              /\ md.file_to_chunks[hreq[p].path] = chunks
              /\ Range(chunks) \subseteq DOMAIN md.chunk_metadata

\* C5: once concurrent CreateFile, RenameFile and DeleteFile calls on
\* different paths have all returned, metadata.json holds what running them
\* one after another in some order would have left.
C5_Linearizable ==
    (/\ Quiet
     /\ \A p \in Procs : \A q \in Procs \ {p} :
           PathsOf(hreq[p]) \cap PathsOf(hreq[q]) = {})
    => load_metadata(disk) \in Outcomes(base, {p \in Procs : hpc[p] = "done"})

\* C10: when the metadata process is killed while it serves a rename of old
\* to another path new, metadata.json still lists the file's chunk sequence
\* under old or under new.
C10_RenameCrashAtomic ==
    (/\ hist.op = "crash" /\ hist.sources[1] = "rename"
     /\ hist.path # hist.path2)
    => LET md == load_metadata(disk)
       IN \/ /\ hist.path \in DOMAIN md.file_to_chunks
             /\ md.file_to_chunks[hist.path] = hist.chunks
          \/ /\ hist.path2 \in DOMAIN md.file_to_chunks
             /\ md.file_to_chunks[hist.path2] = hist.chunks

\* A replica of chunk c that is reachable and holds it.
Obtainable(md, c) ==
    /\ c \in DOMAIN md.chunk_metadata
    /\ \E n \in Range(md.chunk_metadata[c].chunk_servers) :
          up[n] /\ Holds(store, n, c)

\* C11: a download of a file some chunk of which no assigned replica can
\* yield (each is unreachable or does not hold it) answers an error, 500,
\* with no file bytes in the body: never 200.
C11_FailFast ==
    [][(/\ hist'.op = "download"
        /\ hist'.path \in DOMAIN load_metadata(disk).file_to_chunks
        /\ \E c \in Range(load_metadata(disk).file_to_chunks[hist'.path]) :
              ~Obtainable(load_metadata(disk), c))
       => (hist'.status = 500 /\ hist'.data = <<>>)]_vars

\* C11 witness: a download answered 500 for a file of which one chunk can
\* be read and another cannot.
C11_Witness ==
    /\ hist.op = "download" /\ hist.status = 500
    /\ hist.path \in DOMAIN load_metadata(disk).file_to_chunks
    /\ LET md == load_metadata(disk)
           chunk_ids == Range(md.file_to_chunks[hist.path])
       IN /\ \E c \in chunk_ids : ~Obtainable(md, c)
          /\ \E c \in chunk_ids : Obtainable(md, c)

\* C12: a download of a file whose every chunk a reachable replica holds
\* answers 200 also when the primary of some chunk is unreachable, and reads
\* such a chunk from a reachable replica that holds it.
C12_ProbeErrorFallsThrough ==
    [][(/\ hist'.op = "download"
        /\ Resolved(disk, hist'.path).status = 200
        /\ LET chunks == Resolved(disk, hist'.path).chunks
           IN /\ chunks # <<>>
              /\ \A i \in DOMAIN chunks :
                    Obtainable(load_metadata(disk), chunks[i].chunk_id)
              /\ \E i \in DOMAIN chunks : ~up[chunks[i].chunk_servers[1]])
       => LET chunks == Resolved(disk, hist'.path).chunks
          IN /\ hist'.status = 200
             /\ Len(hist'.sources) = Len(chunks)
             /\ \A i \in DOMAIN chunks :
                   /\ hist'.sources[i] \in Range(chunks[i].chunk_servers)
                   /\ up[hist'.sources[i]]
                   /\ Holds(store, hist'.sources[i], chunks[i].chunk_id)]_vars

\* k is the least number of chunks of CHUNK_SIZE bytes that hold S bytes.
IsCeil(k, S) == k >= 0 /\ k * CHUNK_SIZE >= S /\ (k - 1) * CHUNK_SIZE < S

\* C13: an upload of S bytes answers 200 and leaves at its path a sequence
\* of ceil(S / CHUNK_SIZE) chunk identifiers; on each node written to, chunk
\* i of the sequence holds the bytes of the file from offset (i-1)*CHUNK_SIZE
\* on, CHUNK_SIZE of them except for the last chunk, which holds the rest.
\* A CreateFile of S >= 0 bytes registers ceil(S / CHUNK_SIZE) identifiers.
C13_Chunking ==
    [][/\ hist'.op = "upload"
          => LET data   == hist'.data
                 S      == Len(data)
                 md     == load_metadata(disk')
                 chunks == md.file_to_chunks[hist'.path]
                 k      == Len(chunks)
             IN /\ hist'.status = 200
                /\ hist'.path \in DOMAIN md.file_to_chunks
                /\ IsCeil(k, S)
                /\ chunks = hist'.chunks
                /\ \A j \in 1..Len(upload_nodes) : \A i \in 1..k :
                      LET blobs == store'[upload_nodes[j]]
                      IN /\ chunks[i] \in DOMAIN blobs
                         /\ Len(blobs[chunks[i]]) <= CHUNK_SIZE
                         /\ Len(blobs[chunks[i]]) =
                               (IF i < k THEN CHUNK_SIZE
                                ELSE S - (k - 1) * CHUNK_SIZE)
                         /\ \A x \in 1..Len(blobs[chunks[i]]) :
                               blobs[chunks[i]][x] = data[(i - 1) * CHUNK_SIZE + x]
       /\ (hist'.op = "create" /\ hist'.data[1] >= 0)
          => IsCeil(Len(hist'.chunks), hist'.data[1])]_vars

\* C13 witness: an upload of CHUNK_SIZE + 1 bytes answered 200 and its
\* second chunk, of one byte, is on node1.
C13_Witness ==
    /\ hist.op = "upload" /\ hist.status = 200
    /\ Len(hist.data) = CHUNK_SIZE + 1
    /\ Len(hist.chunks) = 2
    /\ hist.chunks[2] \in DOMAIN store["node1"]
    /\ Len(store["node1"][hist.chunks[2]]) = 1

\* C14: a CreateFile with a negative size is refused (its answer is not 200)
\* and leaves file_to_chunks and chunk_metadata as they were.
C14_NegativeSizeRejected ==
    [][(hist'.op = "create" /\ hist'.data[1] < 0)
       => /\ hist'.status # 200
          /\ load_metadata(disk') = load_metadata(disk)]_vars

\* C15: every chunk record of metadata.json lists exactly REPLICAS servers,
\* all different, all keys of NODE_MAP, and its primary is the first of them.
C15_Placement ==
    LET cm == load_metadata(disk).chunk_metadata
    IN \A c \in DOMAIN cm :
          /\ Len(cm[c].chunk_servers) = REPLICAS
          /\ Cardinality(Range(cm[c].chunk_servers)) = REPLICAS
          /\ Range(cm[c].chunk_servers) \subseteq NODE_MAP
          /\ cm[c].primary = cm[c].chunk_servers[1]
          /\ cm[c].primary \in Range(cm[c].chunk_servers)

\* C15 witness: metadata.json holds a record for every identifier the run
\* can generate.
C15_Witness ==
    /\ DOMAIN load_metadata(disk).chunk_metadata = ChunkIds
    /\ hist.op \in {"upload", "create"}

\* C16: no chunk identifier is listed twice in file_to_chunks, neither under
\* two paths nor at two positions of one sequence.
C16_ChunkInOneFile ==
    LET ftc == load_metadata(disk).file_to_chunks
    IN \A p \in DOMAIN ftc : \A q \in DOMAIN ftc :
          \A i \in DOMAIN ftc[p] : \A j \in DOMAIN ftc[q] :
              ftc[p][i] = ftc[q][j] => (p = q /\ i = j)

\* C16 witness: a rename to another path answered 200 and moved a file of
\* two chunks.
C16_Witness ==
    /\ hist.op = "rename" /\ hist.status = 200 /\ hist.path # hist.path2
    /\ hist.path \notin DOMAIN load_metadata(disk).file_to_chunks
    /\ hist.path2 \in DOMAIN load_metadata(disk).file_to_chunks
    /\ Len(load_metadata(disk).file_to_chunks[hist.path2]) = MaxIds

\* C17: GetFile, RenameFile and DeleteFile of a path that file_to_chunks
\* does not list answer 404 and leave metadata.json as it was.
C17_AbsentPathNotFound ==
    [][(/\ hist'.op \in {"get", "rename", "delete"}
        /\ hist'.path \notin DOMAIN load_metadata(disk).file_to_chunks)
       => (hist'.status = 404 /\ disk' = disk)]_vars

\* C17 witness: a rename of an absent path answered 404 while metadata.json
\* lists another file and its chunk records.
C17_Witness ==
    /\ hist.op = "rename" /\ hist.status = 404
    /\ hist.path \notin DOMAIN load_metadata(disk).file_to_chunks
    /\ DOMAIN load_metadata(disk).file_to_chunks # {}
    /\ DOMAIN load_metadata(disk).chunk_metadata # {}

\* pre is the beginning of path q.
IsPrefix(pre, q) == \E n \in 0..Len(q) : pre = [i \in 1..n |-> q[i]]

\* C18: ListFiles(prefix) answers one entry, with its chunk count, for each
\* path of file_to_chunks that begins with prefix, and nothing else.
C18_ListPrefix ==
    [][hist'.op = "list"
       => LET ftc == load_metadata(disk).file_to_chunks
          IN hist'.marks =
                {<<q, Len(ftc[q])>> : q \in {x \in DOMAIN ftc :
                                                IsPrefix(hist'.path, x)}}]_vars

\* C18 witness: a listing that answered some of the files and left out
\* another, for a prefix longer than "/".
C18_Witness ==
    /\ hist.op = "list" /\ Len(hist.path) > 1
    /\ hist.marks # {}
    /\ \E q \in DOMAIN load_metadata(disk).file_to_chunks :
          \A m \in hist.marks : m[1] # q

\* The request recorded in h named the same node and chunk as the one in g.
SameChunk(h, g) == h.sources = g.sources /\ h.chunks = g.chunks

\* C19: a Put of bytes b under an identifier, once the node answered 201,
\* leaves a Get of that identifier answering 200 with exactly b, whatever
\* was stored there before; the other blobs of the node and the other nodes
\* are as they were; the same Put once more changes nothing; and a Get that
\* follows the Put answers b.
C19_PutOverwrites ==
    [][/\ (hist'.op = "put" /\ hist'.status = 201)
          => LET n == hist'.sources[1]
                 c == hist'.chunks[1]
                 b == hist'.data
             IN /\ download_chunk(store'[n], c) = [status |-> 200, content |-> b]
                /\ DOMAIN store'[n] = DOMAIN store[n] \cup {c}
                /\ \A x \in DOMAIN store[n] \ {c} : store'[n][x] = store[n][x]
                /\ \A m \in NODE_MAP \ {n} : store'[m] = store[m]
                /\ upload_chunk(store'[n], c, b)
                      = [blobs |-> store'[n], status |-> 201]
       /\ (/\ hist.op = "put" /\ hist.status = 201
           /\ hist'.op = "get_chunk" /\ SameChunk(hist', hist))
          => (hist'.status = 200 /\ hist'.data = hist.data)
       /\ (/\ hist.op = "put" /\ hist.status = 201
           /\ hist'.op = "put" /\ SameChunk(hist', hist)
           /\ hist'.data = hist.data)
          => (hist'.status = 201 /\ store' = store)]_vars

\* C19 witness: a Put answered 201 for an identifier under which the node
\* held other bytes, and the node now holds the bytes sent.
C19_Witness ==
    /\ hist.op = "put" /\ hist.status = 201
    /\ hist.marks # {} /\ hist.marks # {hist.data}
    /\ store[hist.sources[1]][hist.chunks[1]] = hist.data

\* C20: Exists answers 200 for every identifier and changes no blob; its
\* `exists` is true exactly when a Get of the identifier would answer 200:
\* true right after a Put the node answered 201, false right after a Delete
\* it answered 200 and false on a node nothing was ever put on.
C20_ExistsTotal ==
    [][hist'.op = "exists"
       => LET n == hist'.sources[1]
              c == hist'.chunks[1]
          IN /\ hist'.status = 200
             /\ store' = store
             /\ hist'.marks = {download_chunk(store[n], c).status = 200}
             /\ (hist.op = "put" /\ hist.status = 201 /\ SameChunk(hist', hist))
                => hist'.marks = {TRUE}
             /\ (/\ hist.op = "delete_chunk" /\ hist.status = 200
                 /\ SameChunk(hist', hist))
                => hist'.marks = {FALSE}
             /\ hist = NoHist => hist'.marks = {FALSE}]_vars

\* C20 witness: an Exists answered 200 with exists = false for an identifier
\* the node does not hold, on a node that holds another chunk.
C20_Witness ==
    /\ hist.op = "exists" /\ hist.status = 200 /\ hist.marks = {FALSE}
    /\ hist.chunks[1] \notin DOMAIN store[hist.sources[1]]
    /\ DOMAIN store[hist.sources[1]] # {}

\* The (chunk, node) pairs an upload of the chunk sequence `chunks` starts a
\* thread for.
FanOut(chunks) == Range(chunks) \X Range(upload_nodes)

\* C21: when an upload answers 200, every thread it started, one for each
\* of its chunks and each node it writes to, has finished, with an answer
\* from the node or with an error: none is still running.
C21_SuccessAfterJoin ==
    [][(hist'.op = "upload" /\ hist'.status = 200 /\ upl.pc = "joining")
       => /\ puts = {} /\ puts' = {}
          /\ upl.done = FanOut(hist'.chunks)
          /\ hist'.marks \subseteq upl.done]_vars

\* C21 witness: an upload of two chunks answered 200 after some of its
\* threads were answered 201 and another failed.
C21_Witness ==
    /\ hist.op = "upload" /\ hist.status = 200 /\ upl.pc = "idle"
    /\ Len(hist.chunks) = 2
    /\ hist.marks # {} /\ hist.marks # FanOut(hist.chunks)
    /\ puts = {}

\* The bytes of `data` that make up its i-th chunk.
SliceAt(data, i) ==
    [x \in 1..(IF i * CHUNK_SIZE <= Len(data) THEN CHUNK_SIZE
               ELSE Len(data) - (i - 1) * CHUNK_SIZE) |->
        data[(i - 1) * CHUNK_SIZE + x]]

\* C24: when an upload answers 200 and none of its threads failed (each
\* finished with a 201), in whatever order the threads finished, every server
\* assigned to chunk i of the file holds the i-th slice of the file under
\* chunk i's identifier, and no node holds anything else under an identifier
\* of the file.
C24_SlicesUnderOwnIds ==
    [][(/\ hist'.op = "upload" /\ hist'.status = 200 /\ upl.pc = "joining"
        /\ hist'.marks = upl.done)
       => LET chunks == hist'.chunks
              cm == load_metadata(disk').chunk_metadata
          IN /\ \A i \in DOMAIN chunks :
                   /\ chunks[i] \in DOMAIN cm
                   /\ \A n \in Range(cm[chunks[i]].chunk_servers) :
                         /\ chunks[i] \in DOMAIN store'[n]
                         /\ store'[n][chunks[i]] = SliceAt(hist'.data, i)
             /\ \A n \in NODE_MAP : \A i \in DOMAIN chunks :
                   chunks[i] \in DOMAIN store'[n]
                   => store'[n][chunks[i]] = SliceAt(hist'.data, i)]_vars

\* C24 witness: an upload of two chunks answered 200, every thread was
\* answered 201, and both nodes written to hold both slices.
C24_Witness ==
    /\ hist.op = "upload" /\ hist.status = 200 /\ upl.pc = "idle"
    /\ Len(hist.chunks) = 2
    /\ hist.marks = FanOut(hist.chunks)
    /\ \A n \in Range(upload_nodes) :
          /\ store[n][hist.chunks[1]] = SliceAt(hist.data, 1)
          /\ store[n][hist.chunks[2]] = SliceAt(hist.data, 2)

\* The chunk sequence the CreateFile call served by thread p generated.
CreatedBy(p) ==
    [i \in 1..chunk_count(hreq[p].size) |-> hreq[p].ids_before + i]

\* C22: once two CreateFile calls on the same path have both returned,
\* metadata.json lists the path with the whole chunk sequence one of the two
\* calls generated, and a chunk record for every chunk of that sequence.
C22_SamePathLastWriterWins ==
    \A p \in Procs : \A q \in Procs \ {p} :
        (/\ hpc[p] = "done" /\ hpc[q] = "done"
         /\ hreq[p].kind = "create" /\ hreq[q].kind = "create"
         /\ hreq[p].path = hreq[q].path)
        => LET md == load_metadata(disk)
           IN /\ hreq[p].path \in DOMAIN md.file_to_chunks
              /\ md.file_to_chunks[hreq[p].path] \in {CreatedBy(p), CreatedBy(q)}
              /\ Range(md.file_to_chunks[hreq[p].path])
                    \subseteq DOMAIN md.chunk_metadata

\* The bytes stored for a chunk whose primary holds it.
StoredBytes(chunk) == store[chunk.chunk_servers[1]][chunk.chunk_id]

\* The stored bytes of the chunks i..Len(chunks), one after another.
RECURSIVE ConcatFrom(_, _)
ConcatFrom(chunks, i) ==
    IF i > Len(chunks) THEN <<>>
    ELSE StoredBytes(chunks[i]) \o ConcatFrom(chunks, i + 1)

\* C23: a download of a file that lists k >= 1 chunks, each held by its
\* primary, with every node reachable, answers 200 with the stored bytes of
\* the k chunks one after another in the order of the file's chunk sequence.
C23_ConcatInOrder ==
    [][(/\ hist'.op = "download" /\ AllUp
        /\ Resolved(disk, hist'.path).status = 200
        /\ LET chunks == Resolved(disk, hist'.path).chunks
           IN /\ Len(chunks) >= 1
              /\ \A i \in DOMAIN chunks :
                    Holds(store, chunks[i].chunk_servers[1], chunks[i].chunk_id))
       => /\ hist'.status = 200
          /\ hist'.data = ConcatFrom(Resolved(disk, hist'.path).chunks, 1)]_vars

\* C25: a reconciliation cycle leaves metadata.json as it was; it removes
\* no blob and changes none; every blob it adds is a chunk that has a chunk
\* record, added on a node of that record's chunk_servers by one of the
\* cycle's uploads.
C25_ReconcilerFrame ==
    [][hist'.op = "reconcile"
       => LET cm == load_metadata(disk).chunk_metadata
          IN /\ disk' = disk
             /\ \A n \in NODE_MAP :
                   /\ DOMAIN store[n] \subseteq DOMAIN store'[n]
                   /\ \A c \in DOMAIN store[n] : store'[n][c] = store[n][c]
                   /\ \A c \in DOMAIN store'[n] \ DOMAIN store[n] :
                         /\ c \in DOMAIN cm
                         /\ n \in Range(cm[c].chunk_servers)
                         /\ <<c, n>> \in hist'.marks
             /\ \A mark \in hist'.marks :
                   /\ mark[1] \in DOMAIN cm
                   /\ mark[2] \in Range(cm[mark[1]].chunk_servers)]_vars

\* C25 witness: a cycle that uploaded to two replicas, after which the node
\* that no chunk is assigned to holds nothing.
C25_Witness ==
    /\ hist.op = "reconcile"
    /\ Cardinality(hist.marks) = 2
    /\ \A mark \in hist.marks : Holds(store, mark[2], mark[1])
    /\ store["node3"] = <<>>

\* The chunks of listed files that have a record and that no server of the
\* record holds.
Unrecoverable ==
    LET md == load_metadata(disk)
    IN {c \in UNION {Range(md.file_to_chunks[p]) : p \in DOMAIN md.file_to_chunks} :
          /\ c \in DOMAIN md.chunk_metadata
          /\ \A n \in Range(md.chunk_metadata[c].chunk_servers) :
                ~Holds(store, n, c)}

\* C26: a reconciliation cycle, run with every node reachable, that meets a
\* chunk none of its servers holds uploads that chunk nowhere and marks the
\* file that lists it as degraded. metadata.json is all the metadata server
\* keeps about a file, so a mark on a file is a change of metadata.json.
C26_UnrecoverableMarked ==
    [][(hist'.op = "reconcile" /\ AllUp /\ Unrecoverable # {})
       => /\ \A mark \in hist'.marks : mark[1] \notin Unrecoverable
          /\ \A n \in NODE_MAP : \A c \in Unrecoverable : ~Holds(store', n, c)
          /\ disk' # disk]_vars

\* Every server of every chunk of every listed file is reachable and holds
\* the chunk.
AllHealthy ==
    LET md == load_metadata(disk)
    IN \A p \in DOMAIN md.file_to_chunks :
          \A c \in Range(md.file_to_chunks[p]) \cap DOMAIN md.chunk_metadata :
              \A n \in Range(md.chunk_metadata[c].chunk_servers) :
                  up[n] /\ Holds(store, n, c)

\* C27: a reconciliation cycle that finds every replica in place uploads
\* nothing and leaves every chunk directory as it was; and a cycle that runs
\* right after another cycle changes no chunk directory.
C27_RepairIdempotent ==
    [][hist'.op = "reconcile"
       => /\ AllHealthy => (hist'.marks = {} /\ store' = store)
          /\ hist.op = "reconcile" => store' = store]_vars

\* C27 witness: a cycle uploaded nothing for a file of two chunks whose
\* replicas are all in place.
C27_Witness ==
    /\ hist.op = "reconcile" /\ hist.marks = {}
    /\ AllHealthy
    /\ \E p \in DOMAIN load_metadata(disk).file_to_chunks :
          Len(load_metadata(disk).file_to_chunks[p]) = 2

\* The replica the reconciler reads chunk c from when it repairs node n: the
\* first server of the record other than n.
SourceOf(md, c, n) ==
    SelectSeq(md.chunk_metadata[c].chunk_servers, LAMBDA m : m # n)[1]

\* C28: in every reconciliation cycle, whatever fails for other replicas and
\* other chunks in it (a server unreachable, a chunk no server holds), each
\* reachable server that lacks a chunk of a listed file, and whose source
\* replica is reachable and holds the chunk, holds it after the cycle with
\* the source's bytes. This holds of every cycle, hence of the cycle after
\* one that could not repair.
C28_FailuresDoNotStopCycle ==
    [][hist'.op = "reconcile"
       => LET md == load_metadata(disk)
          IN \A p \in DOMAIN md.file_to_chunks :
               \A c \in Range(md.file_to_chunks[p]) \cap DOMAIN md.chunk_metadata :
                 \A n \in Range(md.chunk_metadata[c].chunk_servers) :
                   (/\ up[n] /\ ~Holds(store, n, c)
                    /\ up[SourceOf(md, c, n)]
                    /\ Holds(store, SourceOf(md, c, n), c))
                   => /\ Holds(store', n, c)
                      /\ store'[n][c] = store[SourceOf(md, c, n)][c]
                      /\ <<c, n>> \in hist'.marks]_vars

\* C28 witness: a cycle repaired a replica of one chunk while another chunk
\* of a listed file is held by none of its servers.
C28_Witness ==
    /\ hist.op = "reconcile" /\ hist.marks # {}
    /\ Unrecoverable # {}

\* C29: a CreateFile, RenameFile or DeleteFile that answers 200 has left in
\* metadata.json the dictionaries its handler computed from the ones it
\* loaded.
C29_SuccessMeansPersisted ==
    [][(hist'.op \in {"create", "rename", "delete"} /\ hist'.status = 200)
       => LET loaded == load_metadata(disk)
              computed ==
                  CASE hist'.op = "create" ->
                           create_file(loaded, hist'.path, hist'.data[1], nextId).md
                    [] hist'.op = "rename" ->
                           rename_file(loaded, hist'.path, hist'.path2).md
                    [] hist'.op = "delete" ->
                           delete_file(loaded, hist'.path).md
          IN load_metadata(disk') = computed]_vars

\* C30: a RenameFile(p, p) on a path p that metadata.json holds leaves p in
\* metadata.json with the chunk sequence it had before the request.
C30_RenameOntoSelf ==
    [][(/\ hist'.op = "rename"
        /\ hist'.path = hist'.path2
        /\ hist'.path \in DOMAIN load_metadata(disk).file_to_chunks)
       => /\ hist'.path \in DOMAIN load_metadata(disk').file_to_chunks
          /\ load_metadata(disk').file_to_chunks[hist'.path]
                = load_metadata(disk).file_to_chunks[hist'.path]]_vars

\* C31: every chunk record of metadata.json is referenced by the chunk
\* sequence of some file of metadata.json, after any sequence of CreateFile,
\* RenameFile and DeleteFile.
C31_NoOrphanChunkRecords ==
    LET md == load_metadata(disk)
    IN \A c \in DOMAIN md.chunk_metadata :
          \E p \in DOMAIN md.file_to_chunks : c \in Range(md.file_to_chunks[p])

\* Every chunk identifier of every file sequence of a metadata value has a
\* chunk record.
Integral(md) ==
    \A p \in DOMAIN md.file_to_chunks :
        Range(md.file_to_chunks[p]) \subseteq DOMAIN md.chunk_metadata

\* C32: in every state of metadata.json, racing mutations included, every
\* chunk identifier of a file's sequence has a chunk record, and GetFile
\* resolves the sequence to one chunk per identifier, in sequence order.
C32_ReferentialIntegrity ==
    LET md == load_metadata(disk)
    IN /\ Integral(md)
       /\ \A p \in DOMAIN md.file_to_chunks :
             LET r == get_file_metadata(md, p)
             IN /\ r.status = 200
                /\ [i \in 1..Len(r.chunks) |-> r.chunks[i].chunk_id]
                      = md.file_to_chunks[p]

\* C33: when the chunk is gone from the node by the time the Get that
\* follows a positive Exists probe is served, the answer's body is not added
\* to the file: a download answered 200 returns bytes of chunks only.
C33_LostBetweenProbeAndGet ==
    [][(dl.pc = "get" /\ dl'.pc = "idle" /\ hist'.status = 200)
       => \A j \in DOMAIN hist'.data : hist'.data[j] \in 1..MaxLen]_vars

\* C34: the reconciler uploads a chunk to a node only while metadata.json
\* holds the chunk's record: once a file is deleted, a cycle that is under
\* way does not put that file's chunks on any node.
C34_NoPutAfterDelete ==
    [][(rec.pc = "running" /\ hist'.op = "visit")
       => \A put \in hist'.marks :
             put[1] \in DOMAIN load_metadata(disk).chunk_metadata]_vars

\* C35: when a handler's load_metadata finds metadata.json unparsable or
\* emptied by another handler's open and goes on from empty dictionaries,
\* what it then saves still holds every file that was stored before and
\* that no request under way names.
C35_FailedLoadKeepsOthers ==
    [][\A p \in Procs :
          (/\ hpc[p] = "writing" /\ hpc'[p] = "done"
           /\ hmd[p] = ApplyReq(EmptyMD, hreq[p])
           /\ disk'.valid)
          => \A x \in DOMAIN base.file_to_chunks :
                (\A q \in Procs : x \notin PathsOf(hreq[q]))
                   => x \in DOMAIN load_metadata(disk').file_to_chunks]_vars

\* C36: while an upload is under way, every node is reachable and none of
\* its threads has failed, a path that GetFile resolves to the upload's
\* chunks has each of them stored on at least one of the chunk's servers.
C36_NoHalfWrittenFile ==
    (/\ upl.pc # "idle"
     /\ AllUp
     /\ upl.done = upl.acks
     /\ Resolved(disk, upl.path).status = 200)
    => \A i \in DOMAIN Resolved(disk, upl.path).chunks :
          LET chunk == Resolved(disk, upl.path).chunks[i]
          IN \E n \in Range(chunk.chunk_servers) :
                Holds(store, n, chunk.chunk_id)

\* C37: when a download of a URL path finds a file, a delete of the same
\* URL path through the gateway answers 200 and removes that file's entry,
\* and a download of the URL path then answers 404.
C37_DeleteResolvesDownloadKey ==
    [][(/\ hist'.op = "delete_web"
        /\ Resolved(disk, decoded_path(hist'.path)).status = 200)
       => /\ hist'.status = 200
          /\ decoded_path(hist'.path)
                \notin DOMAIN load_metadata(disk').file_to_chunks
          /\ download_file(disk', store', up', hist'.path).status = 404]_vars

====
